---------------------------- MODULE Spec2Model ----------------------------
(***************************************************************************)
(* A model of stddraw.py: the process-wide canvas, its pen and coordinate  *)
(* state, the frame presenter (show) with its event polling, and the input *)
(* queue (typed keys, last left click).                                    *)
(*                                                                         *)
(* Numbers.  The module works with Python floats, IEEE 754 binary64, and   *)
(* so does the model where a result is rounded: the coordinate mapper and  *)
(* the wait loop of show compute with the operators FAdd, FSub, FMul and   *)
(* FDiv below, which round as the hardware does.  The arguments the model  *)
(* passes are whole numbers (bounds, canvas sizes, pixel positions,        *)
(* durations in milliseconds) or floats computed from them; the bounds are *)
(* kept as the integers they are equal to.  The pen radius argument is     *)
(* counted in thousandths (5 stands for .005) and the stored pen radius in *)
(* thousandths of a pixel.  NaN and the infinities are not arguments of    *)
(* the setters in this model; the only infinity is the default duration of *)
(* show.                                                                   *)
(***************************************************************************)
EXTENDS Integers, Sequences, FiniteSets, TLC

VARIABLES
    _window_created, _canvas_width, _canvas_height,
    _x_min, _x_max, _y_min, _y_max,
    _pen_radius,      \* in thousandths of a pixel
    _pen_color, _font_family, _font_size,
    _surface,         \* the off-screen buffer
    _background,      \* the window buffer
    _keys_typed, _mouse_pressed, _mouse_position,
    events,           \* the backend's queue of pending input events
    children,         \* the dialog child processes spawned so far, in order
    saved,            \* the image files on disk: path and pixels written
    pc,               \* where the client is: idle, or in show (sleeping,
                      \* waiting, forever), or exited
    second,           \* show: the requested duration in seconds, a float
    seconds_waited,   \* show: the accumulated slice time in seconds, a float
    ret,              \* the outcome of the last call of the client (show: set
                      \* when the call starts; pc tells whether it has returned)
    typed,            \* history: every key the polls have processed, in order
    consumed,         \* history: number of keys next_key_typed has returned
    clicks,           \* history: number of left-button-down events processed
    trues,            \* history: number of true results of mouse_pressed()
    clicks_at_true,   \* history: clicks when mouse_pressed() last returned true
    last_click,       \* history: the last click polled and the bounds in force then
    log               \* history: the steps of the last call of show, in order

canvas_vars == <<_window_created, _canvas_width, _canvas_height, _surface, _background>>
scale_vars  == <<_x_min, _x_max, _y_min, _y_max>>
pen_vars    == <<_pen_radius, _pen_color, _font_family, _font_size>>
input_vars  == <<_keys_typed, _mouse_pressed, _mouse_position>>
poll_vars   == <<events, children, saved>>
show_vars   == <<pc, second, seconds_waited>>
hist_vars   == <<typed, consumed, clicks, trues, clicks_at_true, last_click, log>>

vars == <<_window_created, _canvas_width, _canvas_height, _x_min, _x_max, _y_min,
          _y_max, _pen_radius, _pen_color, _font_family, _font_size, _surface,
          _background, _keys_typed, _mouse_pressed, _mouse_position, events,
          children, saved, pc, second, seconds_waited, ret, typed, consumed,
          clicks, trues, clicks_at_true, last_click, log>>

-----------------------------------------------------------------------------
(* Bounds of the model.                                                    *)

MaxEvents == 2      \* pending events the backend queue holds at most
MaxKeys   == 2      \* key-down events over a run
MaxClicks == 2      \* left-button-down events over a run
MaxSaves  == 1      \* right-click save requests over a run

-----------------------------------------------------------------------------
(* Default sizes and values (stddraw.py lines 48-58).                      *)

_BORDER              == 0
_DEFAULT_X_MIN       == 0
_DEFAULT_X_MAX       == 1
_DEFAULT_Y_MIN       == 0
_DEFAULT_Y_MAX       == 1
_DEFAULT_CANVAS_SIZE == 512
_DEFAULT_PEN_RADIUS  == 5
_DEFAULT_FONT_SIZE   == 12
_DEFAULT_PEN_COLOR   == "BLACK"
_DEFAULT_FONT_FAMILY == "Helvetica"
WHITE                == "WHITE"

Inf     == <<>>     \* float('inf'), the default duration of show
Finite(m) == <<m>>  \* a finite duration of m milliseconds

-----------------------------------------------------------------------------
(* Outcomes of calls: the function called, whether it raised, the value it *)
(* returned as a one-element sequence (None: the empty sequence), and      *)
(* whether it was the first call after the import of the module.           *)

None == <<>>

Outcome(op, raised, value) ==
    [op |-> op, raised |-> raised, value |-> value, first |-> ret.op = "import"]

Returned(op, value) == Outcome(op, FALSE, value)
Raised(op)          == Outcome(op, TRUE, None)


-----------------------------------------------------------------------------
(* Natural numbers of any size: sequences of limbs to the base 2^15, the   *)
(* least significant limb first, with no zero limb at the top.             *)

Base == 32768

Rest(a)    == IF a = <<>> THEN <<>> ELSE Tail(a)
Limb(a)    == IF a = <<>> THEN 0 ELSE Head(a)

RECURSIVE Big(_)
Big(n) == IF n = 0 THEN <<>> ELSE <<n % Base>> \o Big(n \div Base)

RECURSIVE Trim(_)
Trim(a) == IF a # <<>> /\ a[Len(a)] = 0 THEN Trim(SubSeq(a, 1, Len(a) - 1)) ELSE a

RECURSIVE BigAddC(_, _, _)
BigAddC(a, b, carry) ==
    IF a = <<>> /\ b = <<>> THEN Big(carry)
    ELSE LET s == Limb(a) + Limb(b) + carry
         IN  <<s % Base>> \o BigAddC(Rest(a), Rest(b), s \div Base)

BigAdd(a, b) == BigAddC(a, b, 0)

\* a - b for a >= b
RECURSIVE BigSubB(_, _, _)
BigSubB(a, b, borrow) ==
    IF a = <<>> THEN <<>>
    ELSE LET d == Limb(a) - Limb(b) - borrow
         IN  <<d % Base>> \o BigSubB(Rest(a), Rest(b), IF d < 0 THEN 1 ELSE 0)

BigSub(a, b) == Trim(BigSubB(a, b, 0))

\* -1, 0 or 1 as a is below, equal to or above b
RECURSIVE BigCmp(_, _)
BigCmp(a, b) ==
    IF Len(a) # Len(b) THEN (IF Len(a) < Len(b) THEN -1 ELSE 1)
    ELSE IF a = <<>> THEN 0
    ELSE IF a[Len(a)] # b[Len(b)] THEN (IF a[Len(a)] < b[Len(b)] THEN -1 ELSE 1)
    ELSE BigCmp(Trim(SubSeq(a, 1, Len(a) - 1)), Trim(SubSeq(b, 1, Len(b) - 1)))

\* a * k + carry for a limb k
RECURSIVE BigMulLimb(_, _, _)
BigMulLimb(a, k, carry) ==
    IF a = <<>> THEN Big(carry)
    ELSE LET p == Head(a) * k + carry
         IN  <<p % Base>> \o BigMulLimb(Tail(a), k, p \div Base)

RECURSIVE BigMul(_, _)
BigMul(a, b) ==
    IF a = <<>> \/ b = <<>> THEN <<>>
    ELSE Trim(BigAdd(BigMulLimb(a, Head(b), 0), <<0>> \o BigMul(a, Tail(b))))

RECURSIVE Pow2(_)
Pow2(n) == IF n = 0 THEN 1 ELSE 2 * Pow2(n - 1)

RECURSIVE Zeros(_)
Zeros(n) == IF n = 0 THEN <<>> ELSE <<0>> \o Zeros(n - 1)

\* a * 2^n
BigShl(a, n) ==
    IF a = <<>> THEN <<>>
    ELSE Zeros(n \div 15) \o Trim(BigMulLimb(a, Pow2(n % 15), 0))

\* the quotient of a by a limb k, from the top limb down
RECURSIVE BigDivLimb(_, _, _)
BigDivLimb(a, k, r) ==
    IF a = <<>> THEN <<>>
    ELSE LET n == r * Base + a[Len(a)]
         IN  Append(BigDivLimb(SubSeq(a, 1, Len(a) - 1), k, n % k), n \div k)

\* the remainder of a by a limb k
RECURSIVE BigModLimb(_, _)
BigModLimb(a, k) ==
    IF a = <<>> THEN 0
    ELSE (BigModLimb(SubSeq(a, 1, Len(a) - 1), k) * Base + a[Len(a)]) % k

\* floor(a / 2^n)
BigShr(a, n) ==
    IF n \div 15 >= Len(a) THEN <<>>
    ELSE Trim(BigDivLimb(SubSeq(a, n \div 15 + 1, Len(a)), Pow2(n % 15), 0))

RECURSIVE Bits(_)
Bits(n) == IF n = 0 THEN 0 ELSE 1 + Bits(n \div 2)

\* the number of binary digits of a
BitLen(a) == IF a = <<>> THEN 0 ELSE 15 * (Len(a) - 1) + Bits(a[Len(a)])

BigOdd(a) == a # <<>> /\ a[1] % 2 = 1

\* The binary digits of r / d after the point, for r < d, appended to q until
\* q has n digits or the division comes out even; exp counts the digits.
RECURSIVE BigDivDigits(_, _, _, _, _)
BigDivDigits(q, r, d, exp, n) ==
    IF BitLen(q) >= n \/ r = <<>> THEN [quot |-> q, exp |-> exp, inexact |-> r # <<>>]
    ELSE LET r2 == BigAdd(r, r)
             ge == BigCmp(r2, d) >= 0
         IN  BigDivDigits(BigAdd(BigAdd(q, q), IF ge THEN <<1>> ELSE <<>>),
                          IF ge THEN BigSub(r2, d) ELSE r2, d, exp - 1, n)

-----------------------------------------------------------------------------
(* Python floats: IEEE 754 binary64 numbers, man * 2^exp with the sign     *)
(* apart, in the one form that has man odd (zero: man = 0, exp = 0).       *)
(* Every operation rounds its exact result to 53 binary digits, to nearest *)
(* and to even on a tie.  Overflow, underflow, infinities and NaN do not   *)
(* arise from the arguments of this model.                                 *)

Precision == 53

\* the number of zero digits at the low end of n > 0
RECURSIVE LowZeros(_)
LowZeros(n) == IF n % 2 = 1 THEN 0 ELSE 1 + LowZeros(n \div 2)

RECURSIVE Odd(_, _, _)
Odd(neg, man, exp) ==
    IF man = <<>> THEN [neg |-> FALSE, man |-> <<>>, exp |-> 0]
    ELSE IF Head(man) = 0 THEN Odd(neg, Tail(man), exp + 15)
    ELSE [neg |-> neg,
          man |-> BigShr(man, LowZeros(Head(man))),
          exp |-> exp + LowZeros(Head(man))]

\* The float nearest to (man + f) * 2^exp, where 0 < f < 1 if sticky and f = 0 if not.
Round(neg, man, exp, sticky) ==
    LET drop == BitLen(man) - Precision
    IN  IF drop <= 0 THEN Odd(neg, man, exp)
        ELSE LET q    == BigShr(man, drop)
                 rem  == BigSub(man, BigShl(q, drop))
                 half == BigCmp(rem, BigShl(<<1>>, drop - 1))
                 up   == \/ half > 0
                         \/ half = 0 /\ (sticky \/ BigOdd(q))
             IN  Odd(neg, IF up THEN BigAdd(q, <<1>>) ELSE q, exp + drop)

Float(n) == Odd(n < 0, Big(IF n < 0 THEN -n ELSE n), 0)

FNeg(x) == IF x.man = <<>> THEN x ELSE [x EXCEPT !.neg = ~@]

\* x + y
FAdd(x, y) ==
    LET e  == IF x.exp < y.exp THEN x.exp ELSE y.exp
        mx == BigShl(x.man, x.exp - e)
        my == BigShl(y.man, y.exp - e)
    IN  IF x.neg = y.neg THEN Round(x.neg, BigAdd(mx, my), e, FALSE)
        ELSE IF BigCmp(mx, my) >= 0 THEN Round(x.neg, BigSub(mx, my), e, FALSE)
        ELSE Round(y.neg, BigSub(my, mx), e, FALSE)

FSub(x, y) == FAdd(x, FNeg(y))

FMul(x, y) == Round(x.neg # y.neg, BigMul(x.man, y.man), x.exp + y.exp, FALSE)

\* x / y for y # 0.  A divisor whose mantissa is one limb divides by short
\* division; for any other the mantissas are brought to the same number of
\* digits, which makes their quotient one digit before the point and the rest
\* after.
FDiv(x, y) ==
    LET lx == BitLen(x.man)
        ly == BitLen(y.man)
        k  == Precision + 2 + ly
        n  == BigShl(x.man, k)
        mx == IF lx < ly THEN BigShl(x.man, ly - lx) ELSE x.man
        my == IF ly < lx THEN BigShl(y.man, lx - ly) ELSE y.man
        ge == BigCmp(mx, my) >= 0
        d  == BigDivDigits(IF ge THEN <<1>> ELSE <<>>,
                           IF ge THEN BigSub(mx, my) ELSE mx,
                           my, 0, Precision + 2)
    IN  IF x.man = <<>> THEN x
        ELSE IF Len(y.man) = 1
        THEN Round(x.neg # y.neg, Trim(BigDivLimb(n, Head(y.man), 0)),
                   (x.exp - y.exp) - k, BigModLimb(n, Head(y.man)) # 0)
        ELSE Round(x.neg # y.neg, d.quot, (x.exp - y.exp) - (ly - lx) + d.exp, d.inexact)

\* x < y
FLess(x, y) ==
    LET e  == IF x.exp < y.exp THEN x.exp ELSE y.exp
        c  == BigCmp(BigShl(x.man, x.exp - e), BigShl(y.man, y.exp - e))
    IN  IF x.neg # y.neg THEN x.neg
        ELSE IF x.neg THEN c > 0 ELSE c < 0

FAbs(x) == [x EXCEPT !.neg = FALSE]

-----------------------------------------------------------------------------
(* The canvas: the window flag, its size and the two buffers.  A buffer is *)
(* abstracted to the colour it was last filled with and whether anything   *)
(* has been drawn on it since.                                             *)

Frame(fill, ink) == [fill |-> fill, ink |-> ink]
NoSurface        == Frame("None", FALSE)      \* _surface = None, _background = None
FreshDisplay     == Frame("BLACK", FALSE)     \* what pygame.display.set_mode returns

Canvas == [created    |-> _window_created,
           width      |-> _canvas_width,
           height     |-> _canvas_height,
           surface    |-> _surface,
           background |-> _background]

\* A set_canvas_size without the test of _window_created.
set_canvas_size_on_again(c, w, h) ==
    IF (w < 1) \/ (h < 1) THEN [raised |-> TRUE, canvas |-> c]
    ELSE [raised |-> FALSE,
          canvas |-> [created    |-> TRUE,
                      width      |-> w,
                      height     |-> h,
                      surface    |-> [fill |-> "WHITE", ink |-> FALSE],
                      background |-> FreshDisplay]]

\* A set_canvas_size that stores the size before it validates it.
set_canvas_size_on_early(c, w, h) ==
    IF c.created THEN [raised |-> TRUE, canvas |-> c]
    ELSE IF (w < 1) \/ (h < 1)
    THEN [raised |-> TRUE, canvas |-> [c EXCEPT !.width = w, !.height = h]]
    ELSE [raised |-> FALSE,
          canvas |-> [created    |-> TRUE,
                      width      |-> w,
                      height     |-> h,
                      surface    |-> [fill |-> "WHITE", ink |-> FALSE],
                      background |-> FreshDisplay]]

\* set_canvas_size(w, h) applied to canvas c: the outcome and the canvas after.
set_canvas_size_on(c, w, h) ==
    IF c.created THEN [raised |-> TRUE, canvas |-> c]
    ELSE IF (w < 1) \/ (h < 1) THEN [raised |-> TRUE, canvas |-> c]
    ELSE [raised |-> FALSE,
          canvas |-> [created    |-> TRUE,
                      width      |-> w,
                      height     |-> h,
                      surface    |-> Frame(WHITE, FALSE),
                      background |-> FreshDisplay]]

\* A _make_sure_window_created that never creates the window.
_make_sure_window_created_off(c) == c

_make_sure_window_created(c) ==
    IF ~c.created
    THEN [set_canvas_size_on(c, _DEFAULT_CANVAS_SIZE, _DEFAULT_CANVAS_SIZE).canvas
            EXCEPT !.created = TRUE]
    ELSE c

SetCanvas(c) ==
    /\ _window_created' = c.created
    /\ _canvas_width'   = c.width
    /\ _canvas_height'  = c.height
    /\ _surface'        = c.surface
    /\ _background'     = c.background

-----------------------------------------------------------------------------
(* Coordinate mapper.  The bounds and the canvas size are floats that hold  *)
(* whole numbers; x is a float.                                            *)

\* A _user_x that divides by the default canvas size, not the live width.
_user_x_default(x) ==
    FAdd(Float(_x_min),
         FDiv(FMul(x, FSub(Float(_x_max), Float(_x_min))), Float(_DEFAULT_CANVAS_SIZE)))

\* _canvas_width * (x - _x_min) / (_x_max - _x_min)
_scale_x(x) ==
    FDiv(FMul(Float(_canvas_width), FSub(x, Float(_x_min))),
         FSub(Float(_x_max), Float(_x_min)))

\* _canvas_height * (_y_max - y) / (_y_max - _y_min)
_scale_y(y) ==
    FDiv(FMul(Float(_canvas_height), FSub(Float(_y_max), y)),
         FSub(Float(_y_max), Float(_y_min)))

\* _x_min + x * (_x_max - _x_min) / _canvas_width
_user_x(x) ==
    FAdd(Float(_x_min),
         FDiv(FMul(x, FSub(Float(_x_max), Float(_x_min))), Float(_canvas_width)))

\* A _user_y whose axis is not inverted.
_user_y_upright(y) ==
    FAdd(Float(_y_min),
         FDiv(FMul(y, FSub(Float(_y_max), Float(_y_min))), Float(_canvas_height)))

\* _y_max - y * (_y_max - _y_min) / _canvas_height
_user_y(y) ==
    FSub(Float(_y_max),
         FDiv(FMul(y, FSub(Float(_y_max), Float(_y_min))), Float(_canvas_height)))

-----------------------------------------------------------------------------
(* Initial state: the module after import.  Lines 60-79 set the globals,   *)
(* lines 814-816 call set_x_scale(), set_y_scale() and set_pen_radius()    *)
(* with their defaults, which stores .005 * 512 as the pen radius.         *)

\* A polled click: its pixel and the bounds <<x_min, x_max, y_min, y_max>> then.
Click(pos, bounds) == [pos |-> pos, bounds |-> bounds]
NoClick == Click(<<>>, <<>>)

\* The state after the import of the module, but for the pen radius and the
\* outcome of the last call.
Imported ==
    /\ _window_created = FALSE
    /\ _canvas_width   = _DEFAULT_CANVAS_SIZE
    /\ _canvas_height  = _DEFAULT_CANVAS_SIZE
    /\ _x_min = _DEFAULT_X_MIN - _BORDER * (_DEFAULT_X_MAX - _DEFAULT_X_MIN)
    /\ _x_max = _DEFAULT_X_MAX + _BORDER * (_DEFAULT_X_MAX - _DEFAULT_X_MIN)
    /\ _y_min = _DEFAULT_Y_MIN - _BORDER * (_DEFAULT_Y_MAX - _DEFAULT_Y_MIN)
    /\ _y_max = _DEFAULT_Y_MAX + _BORDER * (_DEFAULT_Y_MAX - _DEFAULT_Y_MIN)
    /\ _pen_color   = _DEFAULT_PEN_COLOR
    /\ _font_family = _DEFAULT_FONT_FAMILY
    /\ _font_size   = _DEFAULT_FONT_SIZE
    /\ _surface     = NoSurface
    /\ _background  = NoSurface
    /\ _keys_typed  = <<>>
    /\ _mouse_pressed  = FALSE
    /\ _mouse_position = <<0, 0>>
    /\ events   = <<>>
    /\ children = <<>>
    /\ saved    = {}
    /\ pc = "idle"
    /\ second = Float(0)
    /\ seconds_waited = Float(0)
    /\ typed = <<>>
    /\ consumed = 0
    /\ clicks = 0
    /\ trues = 0
    /\ clicks_at_true = -1
    /\ last_click = NoClick
    /\ log = <<>>

Init ==
    /\ Imported
    /\ _pen_radius  = _DEFAULT_PEN_RADIUS * _DEFAULT_CANVAS_SIZE
    /\ ret = [op |-> "import", raised |-> FALSE, value |-> None, first |-> FALSE]

\* The state after the import and one call set_pen_radius(p / 512000.0),
\* which stores p thousandths of a pixel.
Stored(p) ==
    /\ Imported
    /\ _pen_radius = p
    /\ ret = [op |-> "set_pen_radius", raised |-> FALSE, value |-> None, first |-> TRUE]

-----------------------------------------------------------------------------
(* Setters.  The client calls them between two calls of show, when         *)
(* pc = "idle".                                                            *)

set_canvas_size(w, h) ==
    /\ pc = "idle"
    /\ LET r == set_canvas_size_on(Canvas, w, h)
       IN  /\ SetCanvas(r.canvas)
           /\ ret' = IF r.raised THEN Raised("set_canvas_size")
                                 ELSE Returned("set_canvas_size", None)
    /\ UNCHANGED <<scale_vars, pen_vars, input_vars, poll_vars, show_vars, hist_vars>>

\* The bounds set_x_scale / set_y_scale store for (minimum, maximum).
ScaleBounds(minimum, maximum) ==
    LET size == maximum - minimum
    IN  <<minimum - _BORDER * size, maximum + _BORDER * size>>

\* A set_x_scale that rejects only minimum > maximum.
set_x_scale_equal(minimum, maximum) ==
    /\ pc = "idle"
    /\ IF minimum > maximum
       THEN /\ ret' = Raised("set_x_scale")
            /\ UNCHANGED <<_x_min, _x_max>>
       ELSE /\ _x_min' = ScaleBounds(minimum, maximum)[1]
            /\ _x_max' = ScaleBounds(minimum, maximum)[2]
            /\ ret' = Returned("set_x_scale", None)
    /\ UNCHANGED <<canvas_vars, _y_min, _y_max, pen_vars, input_vars, poll_vars,
                   show_vars, hist_vars>>

set_x_scale(minimum, maximum) ==
    /\ pc = "idle"
    /\ IF minimum >= maximum
       THEN /\ ret' = Raised("set_x_scale")
            /\ UNCHANGED <<_x_min, _x_max>>
       ELSE /\ _x_min' = ScaleBounds(minimum, maximum)[1]
            /\ _x_max' = ScaleBounds(minimum, maximum)[2]
            /\ ret' = Returned("set_x_scale", None)
    /\ UNCHANGED <<canvas_vars, _y_min, _y_max, pen_vars, input_vars, poll_vars,
                   show_vars, hist_vars>>

set_y_scale(minimum, maximum) ==
    /\ pc = "idle"
    /\ IF minimum >= maximum
       THEN /\ ret' = Raised("set_y_scale")
            /\ UNCHANGED <<_y_min, _y_max>>
       ELSE /\ _y_min' = ScaleBounds(minimum, maximum)[1]
            /\ _y_max' = ScaleBounds(minimum, maximum)[2]
            /\ ret' = Returned("set_y_scale", None)
    /\ UNCHANGED <<canvas_vars, _x_min, _x_max, pen_vars, input_vars, poll_vars,
                   show_vars, hist_vars>>

\* A set_pen_radius that scales by the live canvas width.
set_pen_radius_live(r) ==
    /\ pc = "idle"
    /\ IF r < 0
       THEN /\ ret' = Raised("set_pen_radius")
            /\ UNCHANGED _pen_radius
       ELSE /\ _pen_radius' = r * _canvas_width
            /\ ret' = Returned("set_pen_radius", None)
    /\ UNCHANGED <<canvas_vars, scale_vars, _pen_color, _font_family, _font_size,
                   input_vars, poll_vars, show_vars, hist_vars>>

\* r is counted in thousandths; the stored radius in thousandths of a pixel.
set_pen_radius(r) ==
    /\ pc = "idle"
    /\ IF r < 0
       THEN /\ ret' = Raised("set_pen_radius")
            /\ UNCHANGED _pen_radius
       ELSE /\ _pen_radius' = r * _DEFAULT_CANVAS_SIZE
            /\ ret' = Returned("set_pen_radius", None)
    /\ UNCHANGED <<canvas_vars, scale_vars, _pen_color, _font_family, _font_size,
                   input_vars, poll_vars, show_vars, hist_vars>>

set_pen_color(c) ==
    /\ pc = "idle"
    /\ _pen_color' = c
    /\ ret' = Returned("set_pen_color", None)
    /\ UNCHANGED <<canvas_vars, scale_vars, _pen_radius, _font_family, _font_size,
                   input_vars, poll_vars, show_vars, hist_vars>>

set_font_family(f) ==
    /\ pc = "idle"
    /\ _font_family' = f
    /\ ret' = Returned("set_font_family", None)
    /\ UNCHANGED <<canvas_vars, scale_vars, _pen_radius, _pen_color, _font_size,
                   input_vars, poll_vars, show_vars, hist_vars>>

set_font_size(s) ==
    /\ pc = "idle"
    /\ _font_size' = s
    /\ ret' = Returned("set_font_size", None)
    /\ UNCHANGED <<canvas_vars, scale_vars, _pen_radius, _pen_color, _font_family,
                   input_vars, poll_vars, show_vars, hist_vars>>


-----------------------------------------------------------------------------
(* Drawing primitives.  Each one first makes sure the window exists and    *)
(* then draws on the off-screen buffer with the pen.                       *)

Draw(op) ==
    /\ pc = "idle"
    /\ LET c == _make_sure_window_created(Canvas)
       IN  SetCanvas([c EXCEPT !.surface = Frame(c.surface.fill, TRUE)])
    /\ ret' = Returned(op, None)
    /\ UNCHANGED <<scale_vars, pen_vars, input_vars, poll_vars, show_vars, hist_vars>>

point            == Draw("point")
line             == Draw("line")
circle           == Draw("circle")
filled_circle    == Draw("filled_circle")
rectangle        == Draw("rectangle")
filled_rectangle == Draw("filled_rectangle")
square           == Draw("square")
filled_square    == Draw("filled_square")
polygon          == Draw("polygon")
filled_polygon   == Draw("filled_polygon")
text             == Draw("text")
picture          == Draw("picture")

\* A clear that clears the window as well.
clear_window(c) ==
    /\ pc = "idle"
    /\ LET cv == _make_sure_window_created(Canvas)
       IN  SetCanvas([cv EXCEPT !.surface = Frame(c, FALSE), !.background = Frame(c, FALSE)])
    /\ ret' = Returned("clear", None)
    /\ UNCHANGED <<scale_vars, pen_vars, input_vars, poll_vars, show_vars, hist_vars>>

clear(c) ==
    /\ pc = "idle"
    /\ LET cv == _make_sure_window_created(Canvas)
       IN  SetCanvas([cv EXCEPT !.surface = Frame(c, FALSE)])
    /\ ret' = Returned("clear", None)
    /\ UNCHANGED <<scale_vars, pen_vars, input_vars, poll_vars, show_vars, hist_vars>>

\* An image file: its path and the buffer written to it.
ImageFile(f, frame) == [path |-> f, frame |-> frame]

\* The files after pygame.image.save(frame, f), which replaces a file at f.
Written(files, f, frame) ==
    {file \in files : file.path # f} \cup {ImageFile(f, frame)}

\* save(f); ok tells whether pygame.image.save succeeds.
save(f, ok) ==
    /\ pc = "idle"
    /\ LET cv == _make_sure_window_created(Canvas)
       IN  /\ SetCanvas(cv)
           /\ saved' = IF ok THEN Written(saved, f, cv.surface) ELSE saved
    /\ ret' = IF ok THEN Returned("save", None) ELSE Raised("save")
    /\ UNCHANGED <<scale_vars, pen_vars, input_vars, events, children, show_vars,
                   hist_vars>>

-----------------------------------------------------------------------------
(* Input events of the backend (pygame.event).  The release of the right   *)
(* button carries what the save dialog will meet: the seconds the user     *)
(* takes to answer the file picker, the text the file picker child prints, *)
(* and the message of the pygame.error that writing the image raises       *)
(* (None if it succeeds).                                                  *)

Event(type, button, unicode, pos, wait, reply, error) ==
    [type |-> type, button |-> button, unicode |-> unicode, pos |-> pos,
     wait |-> wait, reply |-> reply, error |-> error]

QuitEvent         == Event("QUIT", 0, "", <<0, 0>>, Float(0), <<>>, None)
KeyDown(k)        == Event("KEYDOWN", 0, k, <<0, 0>>, Float(0), <<>>, None)
ButtonDown(b, p)  == Event("MOUSEBUTTONDOWN", b, "", p, Float(0), <<>>, None)
ButtonUp(b, p, wait, reply, error) == Event("MOUSEBUTTONUP", b, "", p, wait, reply, error)

\* Texts (file names, the output of a child) are sequences of characters.
WhiteSpace == {" ", "\t", "\n"}

\* str.strip(): the text without the white space at its two ends
RECURSIVE Strip(_)
Strip(s) ==
    IF s = <<>> THEN s
    ELSE IF Head(s) \in WhiteSpace THEN Strip(Tail(s))
    ELSE IF s[Len(s)] \in WhiteSpace THEN Strip(SubSeq(s, 1, Len(s) - 1))
    ELSE s

EndsWith(s, suffix) ==
    /\ Len(s) >= Len(suffix)
    /\ SubSeq(s, Len(s) - Len(suffix) + 1, Len(s)) = suffix

Jpg == <<".", "j", "p", "g">>
Png == <<".", "p", "n", "g">>

\* The steps of show that the log lists, with the seconds each one takes:
\* a sleep its duration, a poll the time its save dialogs kept it waiting.
Step(step, time) == [step |-> step, time |-> time]
Publish       == Step("publish", Float(0))
Poll(blocked) == Step("poll", blocked)
Sleep(time)   == Step("sleep", time)

\* The part of the process state an event poll reads and writes.
PollState ==
    [canvas   |-> Canvas,
     keys     |-> _keys_typed,
     pressed  |-> _mouse_pressed,
     position |-> _mouse_position,
     children |-> children,
     saved    |-> saved,
     exited   |-> pc = "exited",
     typed    |-> typed,
     clicks   |-> clicks,
     last_click |-> last_click,
     blocked  |-> Float(0),
     log      |-> log]

\* The dialog children: the arguments after the path of the script.
GetFileName          == <<"getFileName">>
ConfirmFileSave      == <<"confirmFileSave">>
ReportFileSaveError(message) == <<"reportFileSaveError", message>>
BadFileName == "File name must end with \".jpg\" or \".png\"."

\* A _save_to_file that does not strip what the file picker child printed.
_save_to_file_raw(st, e) ==
    LET picked == [st EXCEPT !.canvas   = _make_sure_window_created(@),
                             !.children = Append(@, GetFileName),
                             !.blocked  = FAdd(@, e.wait)]
        filename == e.reply
    IN  IF filename = <<>> THEN picked
        ELSE IF ~(EndsWith(filename, Jpg) \/ EndsWith(filename, Png))
        THEN [picked EXCEPT !.children = Append(@, ReportFileSaveError(BadFileName))]
        ELSE IF e.error = None
        THEN [picked EXCEPT
                !.saved    = Written(@, filename, picked.canvas.surface),
                !.children = Append(@, ConfirmFileSave)]
        ELSE [picked EXCEPT !.children = Append(@, ReportFileSaveError(e.error[1]))]

\* The seconds a confirmation or error dialog stays open, longer than any
\* wait of show here.
DialogOpen == Float(5)

\* A _save_to_file that waits for the confirmation or error child as well.
_save_to_file_waiting(st, e) ==
    LET picked == [st EXCEPT !.canvas   = _make_sure_window_created(@),
                             !.children = Append(@, GetFileName),
                             !.blocked  = FAdd(@, e.wait)]
        filename == Strip(e.reply)
    IN  IF filename = <<>> THEN picked
        ELSE IF ~(EndsWith(filename, Jpg) \/ EndsWith(filename, Png))
        THEN [picked EXCEPT !.children = Append(@, ReportFileSaveError(BadFileName)),
                            !.blocked  = FAdd(@, DialogOpen)]
        ELSE IF e.error = None
        THEN [picked EXCEPT
                !.saved    = Written(@, filename, picked.canvas.surface),
                !.children = Append(@, ConfirmFileSave),
                !.blocked  = FAdd(@, DialogOpen)]
        ELSE [picked EXCEPT !.children = Append(@, ReportFileSaveError(e.error[1])),
                            !.blocked  = FAdd(@, DialogOpen)]

\* A _save_to_file that confirms the save after it has reported its failure.
_save_to_file_confirming(st, e) ==
    LET picked == [st EXCEPT !.canvas   = _make_sure_window_created(@),
                             !.children = Append(@, GetFileName),
                             !.blocked  = FAdd(@, e.wait)]
        filename == Strip(e.reply)
    IN  IF filename = <<>> THEN picked
        ELSE IF ~(EndsWith(filename, Jpg) \/ EndsWith(filename, Png))
        THEN [picked EXCEPT !.children = Append(@, ReportFileSaveError(BadFileName))]
        ELSE IF e.error = None
        THEN [picked EXCEPT
                !.saved    = Written(@, filename, picked.canvas.surface),
                !.children = Append(@, ConfirmFileSave)]
        ELSE [picked EXCEPT !.children = Append(Append(@, ReportFileSaveError(e.error[1])),
                                                ConfirmFileSave)]

\* _save_to_file() for a right-button release e.  communicate() waits until
\* the file picker child has exited; the other children are not waited for.
_save_to_file(st, e) ==
    LET picked == [st EXCEPT !.canvas   = _make_sure_window_created(@),
                             !.children = Append(@, GetFileName),
                             !.blocked  = FAdd(@, e.wait)]
        filename == Strip(e.reply)
    IN  IF filename = <<>> THEN picked
        ELSE IF ~(EndsWith(filename, Jpg) \/ EndsWith(filename, Png))
        THEN [picked EXCEPT !.children = Append(@, ReportFileSaveError(BadFileName))]
        ELSE IF e.error = None
        THEN [picked EXCEPT
                !.saved    = Written(@, filename, picked.canvas.surface),
                !.children = Append(@, ConfirmFileSave)]
        ELSE [picked EXCEPT !.children = Append(@, ReportFileSaveError(e.error[1]))]

\* A loop that passes over the window-close.
HandleEvent_deaf(st, e) ==
    IF e.type = "QUIT" THEN st
    ELSE IF e.type = "KEYDOWN"
    THEN [st EXCEPT !.keys  = <<e.unicode>> \o @,
                    !.typed = Append(@, e.unicode)]
    ELSE IF (e.type = "MOUSEBUTTONUP") /\ (e.button = 3)
    THEN _save_to_file(st, e)
    ELSE IF (e.type = "MOUSEBUTTONDOWN") /\ (e.button = 1)
    THEN [st EXCEPT !.pressed  = TRUE,
                    !.position = e.pos,
                    !.clicks   = @ + 1,
                    !.last_click = Click(e.pos, <<_x_min, _x_max, _y_min, _y_max>>)]
    ELSE st

\* A loop that keeps the position of the first click not yet asked for.
HandleEvent_first_click(st, e) ==
    IF e.type = "QUIT" THEN [st EXCEPT !.exited = TRUE]
    ELSE IF e.type = "KEYDOWN"
    THEN [st EXCEPT !.keys  = <<e.unicode>> \o @,
                    !.typed = Append(@, e.unicode)]
    ELSE IF (e.type = "MOUSEBUTTONUP") /\ (e.button = 3)
    THEN _save_to_file(st, e)
    ELSE IF (e.type = "MOUSEBUTTONDOWN") /\ (e.button = 1)
    THEN [st EXCEPT !.pressed  = TRUE,
                    !.position = IF st.pressed THEN @ ELSE e.pos,
                    !.clicks   = @ + 1,
                    !.last_click = Click(e.pos, <<_x_min, _x_max, _y_min, _y_max>>)]
    ELSE st

\* A loop that takes the press of any button for a click.
HandleEvent_any_button(st, e) ==
    IF e.type = "QUIT" THEN [st EXCEPT !.exited = TRUE]
    ELSE IF e.type = "KEYDOWN"
    THEN [st EXCEPT !.keys  = <<e.unicode>> \o @,
                    !.typed = Append(@, e.unicode)]
    ELSE IF (e.type = "MOUSEBUTTONUP") /\ (e.button = 3)
    THEN _save_to_file(st, e)
    ELSE IF e.type = "MOUSEBUTTONDOWN"
    THEN [st EXCEPT !.pressed  = TRUE,
                    !.position = e.pos,
                    !.clicks   = @ + 1,
                    !.last_click = Click(e.pos, <<_x_min, _x_max, _y_min, _y_max>>)]
    ELSE st

\* One event of the loop of _check_for_events.
HandleEvent(st, e) ==
    IF e.type = "QUIT" THEN [st EXCEPT !.exited = TRUE]
    ELSE IF e.type = "KEYDOWN"
    THEN [st EXCEPT !.keys  = <<e.unicode>> \o @,
                    !.typed = Append(@, e.unicode)]
    ELSE IF (e.type = "MOUSEBUTTONUP") /\ (e.button = 3)
    THEN _save_to_file(st, e)
    ELSE IF (e.type = "MOUSEBUTTONDOWN") /\ (e.button = 1)
    THEN [st EXCEPT !.pressed  = TRUE,
                    !.position = e.pos,
                    !.clicks   = @ + 1,
                    !.last_click = Click(e.pos, <<_x_min, _x_max, _y_min, _y_max>>)]
    ELSE st

\* The loop over the events pygame.event.get() returned; sys.exit() ends it.
RECURSIVE HandleEvents(_, _)
HandleEvents(st, evs) ==
    IF evs = <<>> \/ st.exited THEN st
    ELSE HandleEvents(HandleEvent(st, Head(evs)), Tail(evs))

\* The poll that st comes from, put on the log.
Logged(st) == [st EXCEPT !.log = Append(@, Poll(st.blocked))]

\* _check_for_events() with evs pending.
_check_for_events(st, evs) ==
    IF st.exited THEN st
    ELSE Logged(HandleEvents([st EXCEPT !.canvas  = _make_sure_window_created(@),
                                        !.blocked = Float(0)], evs))

\* A _show that polls what the window showed before, without publishing.
_show_unpublished(st, evs) ==
    _check_for_events([st EXCEPT !.log = Append(@, Publish)], evs)

\* A _show that publishes and leaves the poll to its caller.
_show_unpolled(st, evs) ==
    [st EXCEPT !.canvas.background = st.canvas.surface,
               !.log = Append(@, Publish)]

\* _show(): publish the off-screen buffer, then poll.
_show(st, evs) ==
    _check_for_events([st EXCEPT !.canvas.background = st.canvas.surface,
                                 !.log = Append(@, Publish)], evs)

SetPollState(st) ==
    /\ SetCanvas(st.canvas)
    /\ _keys_typed'     = st.keys
    /\ _mouse_pressed'  = st.pressed
    /\ _mouse_position' = st.position
    /\ children'       = st.children
    /\ saved'          = st.saved
    /\ typed'          = st.typed
    /\ clicks'         = st.clicks
    /\ last_click'   = st.last_click
    /\ log'            = st.log
    /\ events'         = <<>>

-----------------------------------------------------------------------------
(* The frame presenter.  show(m) publishes the frame and polls twice; then *)
(* a wait shorter than a slice sleeps once, and a longer or an unbounded   *)
(* wait goes on slice by slice.  The backend may queue events at any       *)
(* moment of the wait.                                                     *)

quantum == FDiv(Float(1), Float(10))       \* the time slice of show, .1 s

show(m_second) ==
    /\ pc = "idle"
    /\ \E shown \in {_show([PollState EXCEPT !.canvas = _make_sure_window_created(@),
                                              !.log = <<>>], events)} :
         IF m_second = Inf
         THEN \* _show_and_wait_forever(): it never returns
              /\ SetPollState(shown)
              /\ pc' = IF shown.exited THEN "exited" ELSE "forever"
              /\ second' = Float(0)
              /\ seconds_waited' = Float(0)
         ELSE \* the second poll finds the queue the first one emptied
              \E st \in {_check_for_events(shown, <<>>)},
                 s \in {FDiv(Float(m_second[1]), Float(1000))} :
                  /\ SetPollState(st)
                  /\ pc' = IF st.exited THEN "exited"
                           ELSE IF FLess(s, quantum) THEN "sleeping"
                           ELSE "waiting"
                  /\ second' = IF st.exited THEN Float(0) ELSE s
                  /\ seconds_waited' = Float(0)
    /\ ret' = Returned("show", None)
    /\ UNCHANGED <<scale_vars, pen_vars, consumed, trues, clicks_at_true>>

\* A short wait that polls the event queue after its sleep.
ShowSleep_polling ==
    /\ pc = "sleeping"
    /\ \E st \in {_check_for_events([PollState EXCEPT
                                       !.log = Append(@, Sleep(second))], events)} :
           /\ SetPollState(st)
           /\ pc' = IF st.exited THEN "exited" ELSE "idle"
    /\ second' = Float(0)
    /\ seconds_waited' = Float(0)
    /\ UNCHANGED <<scale_vars, pen_vars, ret, consumed, trues, clicks_at_true>>

\* The wait shorter than a slice: time.sleep(second), which raises for a
\* negative argument, and return.
ShowSleep ==
    /\ pc = "sleeping"
    /\ IF FLess(second, Float(0))
       THEN /\ ret' = Raised("show")
            /\ log' = log
       ELSE /\ ret' = ret
            /\ log' = Append(log, Sleep(second))
    /\ pc' = "idle"
    /\ second' = Float(0)
    /\ seconds_waited' = Float(0)
    /\ UNCHANGED <<canvas_vars, scale_vars, pen_vars, input_vars, poll_vars, typed,
                   consumed, clicks, trues, clicks_at_true, last_click>>

\* A loop of show that sleeps two slices a turn.
ShowSlice_double ==
    /\ pc = "waiting"
    /\ \E slept \in {FAdd(quantum, quantum)} :
       \E st \in {_check_for_events([PollState EXCEPT !.log = Append(@, Sleep(slept))],
                                    events)},
          waited \in {FAdd(seconds_waited, slept)} :
           /\ SetPollState(st)
           /\ IF st.exited
              THEN /\ pc' = "exited"
                   /\ second' = Float(0)
                   /\ seconds_waited' = Float(0)
              ELSE IF FLess(waited, second)
              THEN /\ pc' = "waiting"
                   /\ second' = second
                   /\ seconds_waited' = waited
              ELSE /\ pc' = "idle"
                   /\ second' = Float(0)
                   /\ seconds_waited' = Float(0)
    /\ UNCHANGED <<scale_vars, pen_vars, ret, consumed, trues, clicks_at_true>>

\* One turn of the loop of show: sleep a slice, count it, poll, test.
ShowSlice ==
    /\ pc = "waiting"
    /\ \E slept \in {quantum} :
       \E st \in {_check_for_events([PollState EXCEPT !.log = Append(@, Sleep(slept))],
                                    events)},
          waited \in {FAdd(seconds_waited, slept)} :
           /\ SetPollState(st)
           /\ IF st.exited
              THEN /\ pc' = "exited"
                   /\ second' = Float(0)
                   /\ seconds_waited' = Float(0)
              ELSE IF FLess(waited, second)
              THEN /\ pc' = "waiting"
                   /\ second' = second
                   /\ seconds_waited' = waited
              ELSE /\ pc' = "idle"
                   /\ second' = Float(0)
                   /\ seconds_waited' = Float(0)
    /\ UNCHANGED <<scale_vars, pen_vars, ret, consumed, trues, clicks_at_true>>

\* An unbounded wait that returns after its first slice.
ForeverSlice_once ==
    /\ pc = "forever"
    /\ \E st \in {_check_for_events([PollState EXCEPT
                                       !.log = <<@[Len(@)], Sleep(quantum)>>], events)} :
           /\ SetPollState(st)
           /\ pc' = IF st.exited THEN "exited" ELSE "idle"
    /\ UNCHANGED <<scale_vars, pen_vars, second, seconds_waited, ret, consumed,
                   trues, clicks_at_true>>

\* One turn of the loop of _show_and_wait_forever: sleep a slice, poll.  The
\* log keeps the last turn and the poll before it.
ForeverSlice ==
    /\ pc = "forever"
    /\ \E st \in {_check_for_events([PollState EXCEPT
                                       !.log = <<@[Len(@)], Sleep(quantum)>>], events)} :
           /\ SetPollState(st)
           /\ pc' = IF st.exited THEN "exited" ELSE "forever"
    /\ UNCHANGED <<scale_vars, pen_vars, second, seconds_waited, ret, consumed,
                   trues, clicks_at_true>>

-----------------------------------------------------------------------------
(* The input queue.                                                        *)

\* A has_next_key_typed that is off by one.
has_next_key_typed_late ==
    /\ pc = "idle"
    /\ ret' = Returned("has_next_key_typed", <<Len(_keys_typed) > 1>>)
    /\ UNCHANGED <<canvas_vars, scale_vars, pen_vars, input_vars, poll_vars,
                   show_vars, hist_vars>>

has_next_key_typed ==
    /\ pc = "idle"
    /\ ret' = Returned("has_next_key_typed", <<_keys_typed # <<>>>>)
    /\ UNCHANGED <<canvas_vars, scale_vars, pen_vars, input_vars, poll_vars,
                   show_vars, hist_vars>>

\* list.pop(0): remove and return the first element.
Pop_first(l) ==
    IF l = <<>> THEN [raised |-> TRUE, list |-> l, item |-> <<>>]
    ELSE [raised |-> FALSE, list |-> Tail(l), item |-> <<Head(l)>>]

\* list.pop(): remove and return the last element; IndexError on an empty list.
Pop(l) ==
    IF l = <<>> THEN [raised |-> TRUE, list |-> l, item |-> <<>>]
    ELSE [raised |-> FALSE, list |-> SubSeq(l, 1, Len(l) - 1), item |-> <<l[Len(l)]>>]

next_key_typed ==
    /\ pc = "idle"
    /\ LET r == Pop(_keys_typed)
       IN  /\ _keys_typed' = r.list
           /\ ret' = IF r.raised THEN Raised("next_key_typed")
                                 ELSE Returned("next_key_typed", r.item)
           /\ consumed' = IF r.raised THEN consumed ELSE consumed + 1
    /\ UNCHANGED <<canvas_vars, scale_vars, pen_vars, _mouse_pressed, _mouse_position,
                   poll_vars, show_vars, typed, clicks, trues, clicks_at_true,
                   last_click, log>>

\* A mouse_pressed that does not clear the flag.
mouse_pressed_sticky ==
    /\ pc = "idle"
    /\ IF _mouse_pressed
       THEN /\ ret' = Returned("mouse_pressed", <<TRUE>>)
            /\ trues' = trues + 1
            /\ clicks_at_true' = clicks
            /\ UNCHANGED _mouse_pressed
       ELSE /\ ret' = Returned("mouse_pressed", <<FALSE>>)
            /\ UNCHANGED <<_mouse_pressed, trues, clicks_at_true>>
    /\ UNCHANGED <<canvas_vars, scale_vars, pen_vars, _keys_typed, _mouse_position,
                   poll_vars, show_vars, typed, consumed, clicks, last_click, log>>

mouse_pressed ==
    /\ pc = "idle"
    /\ IF _mouse_pressed
       THEN /\ _mouse_pressed' = FALSE
            /\ ret' = Returned("mouse_pressed", <<TRUE>>)
            /\ trues' = trues + 1
            /\ clicks_at_true' = clicks
       ELSE /\ ret' = Returned("mouse_pressed", <<FALSE>>)
            /\ UNCHANGED <<_mouse_pressed, trues, clicks_at_true>>
    /\ UNCHANGED <<canvas_vars, scale_vars, pen_vars, _keys_typed, _mouse_position,
                   poll_vars, show_vars, typed, consumed, clicks, last_click, log>>

\* The truth value Python gives a list or tuple: true unless it is empty.
Truthy(l) == l # <<>>

mouse_x ==
    /\ pc = "idle"
    /\ ret' = IF Truthy(_mouse_position)
              THEN Returned("mouse_x", <<_user_x(Float(_mouse_position[1]))>>)
              ELSE Raised("mouse_x")
    /\ UNCHANGED <<canvas_vars, scale_vars, pen_vars, input_vars, poll_vars,
                   show_vars, hist_vars>>

mouse_y ==
    /\ pc = "idle"
    /\ ret' = IF Truthy(_mouse_position)
              THEN Returned("mouse_y", <<_user_y(Float(_mouse_position[2]))>>)
              ELSE Raised("mouse_y")
    /\ UNCHANGED <<canvas_vars, scale_vars, pen_vars, input_vars, poll_vars,
                   show_vars, hist_vars>>

-----------------------------------------------------------------------------
(* The coordinate mapper at work: a coordinate v is mapped to the pixel    *)
(* scale and back, as for a point that is drawn at v and then clicked on.  *)
(* The outcome lists v, the pixel coordinate and the coordinate mapped     *)
(* back.                                                                   *)

ScaleUserX(v) ==
    /\ pc = "idle"
    /\ ret' = Returned("_user_x", <<v, _scale_x(v), _user_x(_scale_x(v))>>)
    /\ UNCHANGED <<canvas_vars, scale_vars, pen_vars, input_vars, poll_vars,
                   show_vars, hist_vars>>

ScaleUserY(v) ==
    /\ pc = "idle"
    /\ ret' = Returned("_user_y", <<v, _scale_y(v), _user_y(_scale_y(v))>>)
    /\ UNCHANGED <<canvas_vars, scale_vars, pen_vars, input_vars, poll_vars,
                   show_vars, hist_vars>>

-----------------------------------------------------------------------------
(* The environment: the user types, clicks or closes the window, and the   *)
(* backend queues the event.  There are events only once there is a        *)
(* window, and a click lies inside the canvas.                             *)

IsKeyDown(e)   == e.type = "KEYDOWN"
IsLeftDown(e)  == (e.type = "MOUSEBUTTONDOWN") /\ (e.button = 1)
IsSaveClick(e) == (e.type = "MOUSEBUTTONUP") /\ (e.button = 3)

\* The pending events of each kind.
PendingKeys   == Cardinality({i \in 1..Len(events) : IsKeyDown(events[i])})
PendingClicks == Cardinality({i \in 1..Len(events) : IsLeftDown(events[i])})
PendingSaves  == Cardinality({i \in 1..Len(events) : IsSaveClick(events[i])})

Spawned(kind) == Cardinality({i \in 1..Len(children) : children[i][1] = kind})

PostEvent(e) ==
    /\ pc # "exited"
    /\ _window_created
    /\ Len(events) < MaxEvents
    /\ IsKeyDown(e)   => Len(typed) + PendingKeys < MaxKeys
    /\ IsLeftDown(e)  => clicks + PendingClicks < MaxClicks
    /\ IsSaveClick(e) =>
           Spawned("getFileName") + PendingSaves < MaxSaves
    /\ e.type \in {"MOUSEBUTTONDOWN", "MOUSEBUTTONUP"} =>
           (e.pos[1] < _canvas_width) /\ (e.pos[2] < _canvas_height)
    /\ events' = Append(events, e)
    /\ UNCHANGED <<canvas_vars, scale_vars, pen_vars, input_vars, children, saved,
                   show_vars, ret, hist_vars>>

-----------------------------------------------------------------------------
(* The drawing primitives as calls of the backend.  The stored pen radius  *)
(* is a float of pixels; a primitive is the sequence of calls of           *)
(* pygame.gfxdraw and pygame.draw it makes, each with the arguments it is  *)
(* given: pixel coordinates are integers, all other lengths floats.        *)

\* the natural number a stands for
RECURSIVE BigInt(_)
BigInt(a) == IF a = <<>> THEN 0 ELSE Head(a) + Base * BigInt(Tail(a))

\* Python's round(x) of a float x: the nearest integer, the even one of two
\* that are equally near.
RoundHalfEven(man, drop) ==
    LET q    == BigShr(man, drop)
        half == BigCmp(BigSub(man, BigShl(q, drop)), BigShl(<<1>>, drop - 1))
    IN  BigInt(IF half > 0 \/ (half = 0 /\ BigOdd(q)) THEN BigAdd(q, <<1>>) ELSE q)

round(x) ==
    IF x.exp >= 0
    THEN (IF x.neg THEN -1 ELSE 1) * BigInt(BigShl(x.man, x.exp))
    ELSE (IF x.neg THEN -1 ELSE 1) * RoundHalfEven(x.man, -x.exp)

\* w * _canvas_width / abs(_x_max - _x_min)
_factor_x(w) ==
    FDiv(FMul(w, Float(_canvas_width)), FAbs(FSub(Float(_x_max), Float(_x_min))))

\* h * _canvas_height / abs(_y_max - _y_min)
_factor_y(h) ==
    FDiv(FMul(h, Float(_canvas_height)), FAbs(FSub(Float(_y_max), Float(_y_min))))

\* the stored pen radius, r * 512.0 for the float r that set_pen_radius was given
PenRadius == FDiv(Float(_pen_radius), Float(1000))

\* pygame.Color(r, g, b, 1): the colour c with an alpha of 1
_pygame_color(c) == [rgb |-> c, alpha |-> 1]

\* pygame.Rect(left, top, width, height), as given
Rect(left, top, width, height) ==
    [left |-> left, top |-> top, width |-> width, height |-> height]

GfxPixel(x, y, color) ==
    [call |-> "pygame.gfxdraw.pixel", x |-> x, y |-> y, color |-> color]
DrawEllipse(color, rect, width) ==
    [call |-> "pygame.draw.ellipse", color |-> color, rect |-> rect, width |-> width]
DrawRect(color, rect, width) ==
    [call |-> "pygame.draw.rect", color |-> color, rect |-> rect, width |-> width]
DrawLine(color, start, end, width) ==
    [call |-> "pygame.draw.line", color |-> color, start |-> start, end |-> end,
     width |-> width]

_pixel(x, y) ==
    <<GfxPixel(round(_scale_x(x)), round(_scale_y(y)), _pygame_color(_pen_color))>>

\* the ellipse in the box of width ws and height hs around (xs, ys)
EllipseAround(xs, ys, ws, hs, width) ==
    <<DrawEllipse(_pygame_color(_pen_color),
                  Rect(FSub(xs, FDiv(ws, Float(2))), FSub(ys, FDiv(hs, Float(2))), ws, hs),
                  width)>>

\* the rectangle of width ws and height hs whose lower left corner is (xs, ys)
RectangleAbove(xs, ys, ws, hs, width) ==
    <<DrawRect(_pygame_color(_pen_color), Rect(xs, FSub(ys, hs), ws, hs), width)>>

\* whether an extent of ws by hs pixels is drawn as one pixel
Degenerate(ws, hs) == ~FLess(Float(1), ws) /\ ~FLess(Float(1), hs)

point_calls(x, y) ==
    IF ~FLess(Float(1), PenRadius)
    THEN _pixel(x, y)
    ELSE <<DrawEllipse(_pygame_color(_pen_color),
                       Rect(FSub(_scale_x(x), PenRadius), FSub(_scale_y(y), PenRadius),
                            FMul(PenRadius, Float(2)), FMul(PenRadius, Float(2))),
                       0)>>

circle_calls(x, y, r) ==
    IF Degenerate(_factor_x(FMul(Float(2), r)), _factor_y(FMul(Float(2), r)))
    THEN _pixel(x, y)
    ELSE EllipseAround(_scale_x(x), _scale_y(y), _factor_x(FMul(Float(2), r)),
                       _factor_y(FMul(Float(2), r)), round(PenRadius))

\* A filled_circle that draws the ellipse however small it is.
filled_circle_calls_always(x, y, r) ==
    EllipseAround(_scale_x(x), _scale_y(y), _factor_x(FMul(Float(2), r)),
                  _factor_y(FMul(Float(2), r)), 0)

filled_circle_calls(x, y, r) ==
    IF Degenerate(_factor_x(FMul(Float(2), r)), _factor_y(FMul(Float(2), r)))
    THEN _pixel(x, y)
    ELSE EllipseAround(_scale_x(x), _scale_y(y), _factor_x(FMul(Float(2), r)),
                       _factor_y(FMul(Float(2), r)), 0)

rectangle_calls(x, y, w, h) ==
    IF Degenerate(_factor_x(w), _factor_y(h))
    THEN _pixel(x, y)
    ELSE RectangleAbove(_scale_x(x), _scale_y(y), _factor_x(w), _factor_y(h),
                        round(PenRadius))

filled_rectangle_calls(x, y, w, h) ==
    IF Degenerate(_factor_x(w), _factor_y(h))
    THEN _pixel(x, y)
    ELSE RectangleAbove(_scale_x(x), _scale_y(y), _factor_x(w), _factor_y(h), 0)

\* a call filled_circle(x, y, r) that _thick_line makes
Stamp(x, y, r) == [x |-> x, y |-> y, r |-> r]

\* A test that takes two points less than two pixels apart for near.
Near_two(x0, y0, x1, y1) ==
    /\ FLess(FAbs(FSub(_scale_x(x0), _scale_x(x1))), Float(2))
    /\ FLess(FAbs(FSub(_scale_y(y0), _scale_y(y1))), Float(2))

\* whether two points are less than a pixel apart along both axes
Near(x0, y0, x1, y1) ==
    /\ FLess(FAbs(FSub(_scale_x(x0), _scale_x(x1))), Float(1))
    /\ FLess(FAbs(FSub(_scale_y(y0), _scale_y(y1))), Float(1))

\* A _thick_line that stamps every piece where it ends.
RECURSIVE _thick_line_ends(_, _, _, _, _)
_thick_line_ends(x0, y0, x1, y1, r) ==
    IF Near(x0, y0, x1, y1)
    THEN <<Stamp(x1, y1, r)>>
    ELSE _thick_line_ends(x0, y0, FDiv(FAdd(x0, x1), Float(2)), FDiv(FAdd(y0, y1), Float(2)), r)
         \o _thick_line_ends(FDiv(FAdd(x0, x1), Float(2)), FDiv(FAdd(y0, y1), Float(2)), x1, y1, r)

\* The calls of filled_circle that _thick_line(x0, y0, x1, y1, r) makes, in
\* order.
RECURSIVE _thick_line(_, _, _, _, _)
_thick_line(x0, y0, x1, y1, r) ==
    IF Near(x0, y0, x1, y1)
    THEN <<Stamp(x0, y0, r)>>
    ELSE _thick_line(x0, y0, FDiv(FAdd(x0, x1), Float(2)), FDiv(FAdd(y0, y1), Float(2)), r)
         \o _thick_line(FDiv(FAdd(x0, x1), Float(2)), FDiv(FAdd(y0, y1), Float(2)), x1, y1, r)

\* the calls of the backend that the stamps make, in order
RECURSIVE StampCalls(_)
StampCalls(stamps) ==
    IF stamps = <<>> THEN <<>>
    ELSE filled_circle_calls(Head(stamps).x, Head(stamps).y, Head(stamps).r)
         \o StampCalls(Tail(stamps))

thick_line_cutoff == Float(3)

\* line_width: twice the stored pen radius, and 1.0 in place of 0.0
line_width ==
    IF FMul(PenRadius, Float(2)) = Float(0) THEN Float(1) ELSE FMul(PenRadius, Float(2))

\* the stamps of line(x0, y0, x1, y1): none if it draws a stroke
line_stamps(x0, y0, x1, y1) ==
    IF FLess(line_width, thick_line_cutoff) THEN <<>>
    ELSE _thick_line(x0, y0, x1, y1, FDiv(PenRadius, Float(_DEFAULT_CANVAS_SIZE)))

line_calls(x0, y0, x1, y1) ==
    IF FLess(line_width, thick_line_cutoff)
    THEN <<DrawLine(_pygame_color(_pen_color),
                    <<_scale_x(x0), _scale_y(y0)>>, <<_scale_x(x1), _scale_y(y1)>>,
                    round(line_width))>>
    ELSE StampCalls(line_stamps(x0, y0, x1, y1))

\* A primitive op called with args: it creates the window if need be and
\* makes the calls, which leave their marks on the off-screen buffer.  The
\* outcome lists the arguments, the stamps of a thick line and the calls.
Paint(op, args, stamps, calls) ==
    /\ pc = "idle"
    /\ LET c == _make_sure_window_created(Canvas)
       IN  SetCanvas([c EXCEPT !.surface = Frame(c.surface.fill, TRUE)])
    /\ ret' = Returned(op, <<[args |-> args, stamps |-> stamps, calls |-> calls]>>)
    /\ UNCHANGED <<scale_vars, pen_vars, input_vars, poll_vars, show_vars, hist_vars>>

point_at(x, y) == Paint("point", <<x, y>>, <<>>, point_calls(x, y))

line_between(x0, y0, x1, y1) ==
    \E stamps \in {line_stamps(x0, y0, x1, y1)} :
        Paint("line", <<x0, y0, x1, y1>>, stamps,
              IF stamps = <<>> THEN line_calls(x0, y0, x1, y1) ELSE StampCalls(stamps))

circle_at(x, y, r) == Paint("circle", <<x, y, r>>, <<>>, circle_calls(x, y, r))

filled_circle_at(x, y, r) ==
    Paint("filled_circle", <<x, y, r>>, <<>>, filled_circle_calls(x, y, r))

rectangle_at(x, y, w, h) ==
    Paint("rectangle", <<x, y, w, h>>, <<>>, rectangle_calls(x, y, w, h))

filled_rectangle_at(x, y, w, h) ==
    Paint("filled_rectangle", <<x, y, w, h>>, <<>>, filled_rectangle_calls(x, y, w, h))

-----------------------------------------------------------------------------
(* Arguments and events the specifications draw from.                      *)

SizeArgs   == {0, 2, 3}
ScaleArgs  == {-1, 0, 2}
RadiusArgs == {-1, 0, 5, 10}
Colors     == {"BLACK", "RED"}
Fills      == {WHITE, "BLACK"}
Families   == {"Helvetica", "Courier"}
FontSizes  == {12, 24}
Durations  == {Finite(0), Finite(50), Finite(250), Inf}
ShortWaits == {0, 50, 99}                   \* milliseconds, below one slice
LongWaits  == {100, 250, 300, 800}          \* milliseconds, one slice or more
Keys       == {"a", "b"}
Positions  == {<<0, 1>>, <<1, 0>>}
Tenth      == FDiv(Float(1), Float(10))      \* the float 0.1
Half       == FDiv(Float(1), Float(2))
Pixels(n, d) == FDiv(Float(n), Float(d * _DEFAULT_CANVAS_SIZE))   \* n/d pixels of the default canvas
StoredRadii == {0, 125, 750, 1500}          \* thousandths of a pixel
PointArgs  == {<<Half, Half>>, <<FDiv(Float(4), Float(5)), Half>>, <<Float(1), Float(0)>>}
SegmentArgs == {<<Float(0), Float(0), Pixels(4, 1), Pixels(4, 1)>>,
                <<Half, Half, Half, Half>>,
                <<Half, Half, FAdd(Half, Pixels(3, 2)), Half>>,
                <<Pixels(4, 1), Float(0), Float(0), Pixels(2, 1)>>}
CircleRadii == {Pixels(1, 2), Pixels(5, 8), FDiv(Float(1), Float(4))}
RectangleSizes == {<<Pixels(1, 1), Pixels(1, 1)>>, <<Pixels(5, 4), Pixels(1, 1)>>, <<Half, Half>>}
Coordinates == {Float(-1), Float(0), Float(1), Float(2), Tenth, FDiv(Float(7), Float(10))}
FileNames  == {<<>>, <<" ">>, <<"a">>, <<"a", ".", "p", "n", "g">>,
               <<"a", ".", "j", "p", "g">>, <<"a", ".", "p", "n", "g", "\n">>}
\* Save requests: canceled; answered by white space; a name with no accepted
\* ending; accepted names, one of them after 3 seconds, one with a newline
\* behind it; and accepted names that pygame fails to write.
SaveClicks ==
    {ButtonUp(3, <<0, 0>>, Float(0), <<>>, None),
     ButtonUp(3, <<0, 0>>, Float(3), <<" ">>, None),
     ButtonUp(3, <<0, 0>>, Float(0), <<"a">>, None),
     ButtonUp(3, <<0, 0>>, Float(3), <<"a", ".", "p", "n", "g">>, None),
     ButtonUp(3, <<0, 0>>, Float(0), <<"a", ".", "j", "p", "g">>, None),
     ButtonUp(3, <<0, 0>>, Float(0), <<"a", ".", "p", "n", "g", "\n">>, None),
     ButtonUp(3, <<0, 0>>, Float(0), <<"a", ".", "p", "n", "g">>, <<"cannot write">>),
     ButtonUp(3, <<0, 0>>, Float(3), <<"a", ".", "j", "p", "g">>, <<"cannot write">>)}
DialogTimes == {Float(0), Float(3)}         \* seconds the file picker stays open
SaveErrors  == {None, <<"cannot write">>}   \* what pygame.image.save raises

KeyEvents   == {KeyDown(k) : k \in Keys}
ClickEvents == {ButtonDown(1, p) : p \in Positions}
OtherEvents == {ButtonDown(3, <<0, 0>>), ButtonUp(1, <<0, 0>>, Float(0), <<>>, None)}
SaveEvents  == {ButtonUp(3, <<0, 0>>, w, f, err) :
                    w \in DialogTimes, f \in FileNames, err \in SaveErrors}

Primitives ==
    \/ point
    \/ line
    \/ circle
    \/ filled_circle
    \/ rectangle
    \/ filled_rectangle
    \/ square
    \/ filled_square
    \/ polygon
    \/ filled_polygon
    \/ text
    \/ picture

Presenter ==
    \/ \E d \in Durations : show(d)
    \/ ShowSleep
    \/ ShowSlice
    \/ ForeverSlice

KeyQueries ==
    \/ has_next_key_typed
    \/ next_key_typed

MouseQueries ==
    \/ mouse_pressed
    \/ mouse_x
    \/ mouse_y

\* The life of the window: every call that can create it, and the setters.
NextWindow ==
    \/ \E w, h \in SizeArgs : set_canvas_size(w, h)
    \/ \E a, b \in {0, 2} : set_x_scale(a, b)
    \/ \E a, b \in {0, 1} : set_y_scale(a, b)
    \/ \E r \in {-1, 5} : set_pen_radius(r)
    \/ set_pen_color("RED")
    \/ set_font_family("Courier")
    \/ set_font_size(24)
    \/ Primitives
    \/ clear(WHITE)
    \/ \E ok \in BOOLEAN : save(<<"a", ".", "p", "n", "g">>, ok)
    \/ Presenter

SpecWindow == Init /\ [][NextWindow]_vars

\* The pen and the coordinate bounds, on windows of several sizes.
NextPen ==
    \/ \E w, h \in SizeArgs : set_canvas_size(w, h)
    \/ \E a, b \in ScaleArgs : set_x_scale(a, b)
    \/ \E a, b \in ScaleArgs : set_y_scale(a, b)
    \/ \E r \in RadiusArgs : set_pen_radius(r)
    \/ \E c \in Colors : set_pen_color(c)
    \/ point
    \/ show(Finite(0))
    \/ ShowSleep

SpecPen == Init /\ [][NextPen]_vars

\* The presenter and the key queue.
NextKeys ==
    \/ \E e \in KeyEvents \cup OtherEvents \cup {QuitEvent} : PostEvent(e)
    \/ Presenter
    \/ KeyQueries

SpecKeys == Init /\ [][NextKeys]_vars

\* The presenter, the last click and the coordinate bounds.
NextMouse ==
    \/ \E e \in ClickEvents \cup OtherEvents : PostEvent(e)
    \/ \E d \in {Finite(0), Finite(250)} : show(d)
    \/ ShowSleep
    \/ ShowSlice
    \/ MouseQueries
    \/ set_canvas_size(2, 3)
    \/ \E b \in ScaleArgs : set_x_scale(0, b)
    \/ \E b \in ScaleArgs : set_y_scale(0, b)

SpecMouse == Init /\ [][NextMouse]_vars

\* Clicks that pile up between the calls of mouse_pressed.
NextClicks ==
    \/ \E e \in ClickEvents \cup OtherEvents : PostEvent(e)
    \/ show(Finite(0))
    \/ ShowSleep
    \/ MouseQueries

SpecClicks == Init /\ [][NextClicks]_vars

\* Points and shapes as calls of the backend, with a thin and a thick pen,
\* on two canvas sizes and two ranges of x.
NextDraw ==
    \/ set_canvas_size(2, 3)
    \/ set_x_scale(0, 2)
    \/ clear(WHITE)
    \/ \E p \in PointArgs : point_at(p[1], p[2])
    \/ \E r \in CircleRadii : circle_at(Half, Half, r)
    \/ \E r \in CircleRadii : filled_circle_at(Half, Half, r)
    \/ \E wh \in RectangleSizes : rectangle_at(Half, Half, wh[1], wh[2])
    \/ \E wh \in RectangleSizes : filled_rectangle_at(Half, Half, wh[1], wh[2])

InitDraw == Stored(0) \/ Stored(1500)

SpecDraw == InitDraw /\ [][NextDraw]_vars

\* Lines as calls of the backend, under several pen radii, on two canvas
\* sizes and two ranges of x.
NextLine ==
    \/ set_canvas_size(2, 3)
    \/ set_x_scale(0, 2)
    \/ clear(WHITE)
    \/ \E s \in SegmentArgs : line_between(s[1], s[2], s[3], s[4])

InitLine == \E p \in StoredRadii : Stored(p)

SpecLine == InitLine /\ [][NextLine]_vars

\* The coordinate mapper under several bounds and canvas sizes.
NextScale ==
    \/ \E w, h \in {2, 3} : set_canvas_size(w, h)
    \/ point
    \/ \E a, b \in ScaleArgs : set_x_scale(a, b)
    \/ \E a, b \in ScaleArgs : set_y_scale(a, b)
    \/ \E v \in Coordinates : ScaleUserX(v)
    \/ \E v \in Coordinates : ScaleUserY(v)

SpecScale == Init /\ [][NextScale]_vars

\* The presenter and its waits, with keys typed and the window closed
\* meanwhile.  The unbounded wait goes on: each of its sleeps ends.
NextShow ==
    \/ \E d \in ShortWaits \cup LongWaits : show(Finite(d))
    \/ show(Inf)
    \/ ShowSleep
    \/ ShowSlice
    \/ ForeverSlice
    \/ \E e \in {KeyDown("a"), QuitEvent} : PostEvent(e)
    \/ next_key_typed

SpecShow ==
    /\ Init
    /\ [][NextShow]_vars
    /\ WF_vars(ForeverSlice)

\* The presenter with save requests by right click, and keys typed.
NextSave ==
    \/ show(Finite(250))
    \/ show(Inf)
    \/ ShowSlice
    \/ ForeverSlice
    \/ \E e \in SaveClicks \cup {KeyDown("a")} : PostEvent(e)
    \/ point

SpecSave == Init /\ [][NextSave]_vars

\* The two buffers under every operation that can touch them.
NextFrame ==
    \/ set_canvas_size(2, 2)
    \/ set_x_scale(0, 1)
    \/ set_y_scale(0, 1)
    \/ set_pen_radius(_DEFAULT_PEN_RADIUS)
    \/ set_pen_color("RED")
    \/ set_font_family(_DEFAULT_FONT_FAMILY)
    \/ set_font_size(_DEFAULT_FONT_SIZE)
    \/ Primitives
    \/ \E c \in Fills : clear(c)
    \/ KeyQueries
    \/ MouseQueries
    \/ show(Finite(0))
    \/ ShowSleep
    \/ PostEvent(KeyDown("a"))

SpecFrame == Init /\ [][NextFrame]_vars

\* The polls of show with events of every kind, and the calls between them.
NextPoll ==
    \/ \E e \in {KeyDown("a"), ButtonDown(1, <<1, 0>>), QuitEvent} \cup OtherEvents :
          PostEvent(e)
    \/ show(Finite(100))
    \/ ShowSlice
    \/ KeyQueries
    \/ MouseQueries
    \/ set_x_scale(0, 1)
    \/ point
    \/ clear(WHITE)

SpecPoll == Init /\ [][NextPoll]_vars

\* Everything.
Next ==
    \/ \E w, h \in SizeArgs : set_canvas_size(w, h)
    \/ \E a, b \in ScaleArgs : set_x_scale(a, b)
    \/ \E a, b \in ScaleArgs : set_y_scale(a, b)
    \/ \E r \in RadiusArgs : set_pen_radius(r)
    \/ \E c \in Colors : set_pen_color(c)
    \/ \E f \in Families : set_font_family(f)
    \/ \E s \in FontSizes : set_font_size(s)
    \/ Primitives
    \/ \E c \in Fills : clear(c)
    \/ \E f \in FileNames, ok \in BOOLEAN : save(f, ok)
    \/ Presenter
    \/ KeyQueries
    \/ MouseQueries
    \/ \E v \in Coordinates : ScaleUserX(v)
    \/ \E v \in Coordinates : ScaleUserY(v)
    \/ \E e \in KeyEvents \cup ClickEvents \cup OtherEvents \cup SaveEvents
               \cup {QuitEvent} : PostEvent(e)

Spec == Init /\ [][Next]_vars

-----------------------------------------------------------------------------
(* The life of the window (SpecWindow).                                    *)

\* C1: once the window is created, by set_canvas_size or lazily, it stays
\* created, and every call of set_canvas_size, with valid or invalid
\* arguments, raises and leaves the canvas width, the canvas height and the
\* created flag unchanged.
C1_ResizeAfterCreationFails ==
    [][_window_created =>
          /\ _window_created'
          /\ \A w, h \in SizeArgs :
                set_canvas_size(w, h) =>
                    /\ ret'.op = "set_canvas_size"
                    /\ ret'.raised
                    /\ UNCHANGED <<_window_created, _canvas_width, _canvas_height>>]_vars

\* A set_canvas_size has failed on a window that a drawing call created.
C1_Witness ==
    /\ _window_created
    /\ _canvas_width = 512
    /\ ret.op = "set_canvas_size"
    /\ ret.raised

\* C2: with no window, a drawing primitive, clear or show creates the window
\* with the default size 512 x 512, and the pen and scale setters leave the
\* window uncreated.
C2_LazyCreation ==
    [][~_window_created =>
          /\ (Primitives \/ clear(WHITE) \/ \E d \in Durations : show(d)) =>
                /\ _window_created'
                /\ _canvas_width' = 512
                /\ _canvas_height' = 512
          /\ (\/ \E a, b \in {0, 1, 2} : set_x_scale(a, b) \/ set_y_scale(a, b)
              \/ \E r \in {-1, 5} : set_pen_radius(r)
              \/ set_pen_color("RED")
              \/ set_font_family("Courier")
              \/ set_font_size(24)) => ~_window_created']_vars

\* The first call after the import was filled_polygon and created the window.
C2_Witness ==
    /\ ret.first
    /\ ret.op = "filled_polygon"
    /\ _window_created
    /\ _canvas_width = 512
    /\ _canvas_height = 512

\* C3: with no window, set_canvas_size(w, h) with w < 1 or h < 1 raises and
\* changes neither the flag nor the stored size, and with w >= 1 and h >= 1
\* it succeeds and creates the window with exactly that size, also after
\* failed calls.
C3_InvalidSizeRejected ==
    [][~_window_created =>
          \A w, h \in SizeArgs :
              set_canvas_size(w, h) =>
                  IF (w < 1) \/ (h < 1)
                  THEN /\ ret'.raised
                       /\ UNCHANGED <<_window_created, _canvas_width, _canvas_height>>
                  ELSE /\ ~ret'.raised
                       /\ _window_created'
                       /\ _canvas_width' = w
                       /\ _canvas_height' = h]_vars

\* A set_canvas_size has failed and there is still no window.
C3_Witness ==
    /\ ~_window_created
    /\ ret.op = "set_canvas_size"
    /\ ret.raised

-----------------------------------------------------------------------------
(* The pen and the coordinate bounds (SpecPen).                            *)

\* C4: x_min < x_max and y_min < y_max in every state; set_x_scale(a, b) and
\* set_y_scale(a, b) raise for a >= b and leave the four bounds unchanged,
\* and for a < b they set the bounds of their axis to (a, b) and leave the
\* other axis unchanged.
C4_ScaleBounds ==
    /\ []((_x_min < _x_max) /\ (_y_min < _y_max))
    /\ [][\A a, b \in ScaleArgs :
            /\ set_x_scale(a, b) =>
                  IF a >= b
                  THEN ret'.raised /\ UNCHANGED scale_vars
                  ELSE /\ ~ret'.raised
                       /\ _x_min' = a
                       /\ _x_max' = b
                       /\ UNCHANGED <<_y_min, _y_max>>
            /\ set_y_scale(a, b) =>
                  IF a >= b
                  THEN ret'.raised /\ UNCHANGED scale_vars
                  ELSE /\ ~ret'.raised
                       /\ _y_min' = a
                       /\ _y_max' = b
                       /\ UNCHANGED <<_x_min, _x_max>>]_vars

\* set_y_scale has set the y bounds and the x bounds set before are kept.
C4_Witness ==
    /\ ret.op = "set_y_scale"
    /\ ~ret.raised
    /\ <<_x_min, _x_max>> = <<-1, 2>>
    /\ <<_y_min, _y_max>> = <<0, 2>>

\* C5: the stored pen radius is never negative; set_pen_radius(r) raises for
\* r < 0 and leaves the stored radius unchanged, and for r >= 0 it stores
\* r * 512 whatever the canvas size is.
C5_PenRadius ==
    /\ [](_pen_radius >= 0)
    /\ [][\A r \in RadiusArgs :
            set_pen_radius(r) =>
                IF r < 0
                THEN ret'.raised /\ UNCHANGED _pen_radius
                ELSE ~ret'.raised /\ _pen_radius' = r * 512]_vars

\* A radius was stored on a canvas that is 2 pixels wide.
C5_Witness ==
    /\ ret.op = "set_pen_radius"
    /\ ~ret.raised
    /\ _window_created
    /\ _canvas_width = 2
    /\ _pen_radius = 10 * 512

-----------------------------------------------------------------------------
(* The key queue (SpecKeys).  typed lists the keys in the order the polls  *)
(* processed their key-down events, and consumed counts the keys that      *)
(* next_key_typed has returned.                                            *)

\* C6 as stated: while keys are waiting, next_key_typed returns the most
\* recently typed of them (after 'a' then 'b': 'b', then 'a').
C6_MostRecentFirst ==
    [][(next_key_typed /\ consumed < Len(typed)) =>
          /\ ~ret'.raised
          /\ ret'.value = <<typed[Len(typed)]>>]_vars

\* C6 as amended: while keys are waiting, next_key_typed removes and returns
\* the earliest typed key not yet consumed, so that the n-th successful call
\* returns the n-th key typed (after 'a' then 'b': 'a', then 'b').
C6_OldestFirst ==
    /\ [](Len(_keys_typed) = Len(typed) - consumed)
    /\ [][(next_key_typed /\ consumed < Len(typed)) =>
            /\ ~ret'.raised
            /\ ret'.value = <<typed[consumed + 1]>>
            /\ Len(_keys_typed') = Len(_keys_typed) - 1]_vars

\* 'a' then 'b' were typed and the first call has returned 'a'.
C6_Witness ==
    /\ typed = <<"a", "b">>
    /\ consumed = 1
    /\ ret.op = "next_key_typed"
    /\ ret.value = <<"a">>

\* C7: next_key_typed raises on an empty queue and leaves it empty;
\* has_next_key_typed returns whether the queue is non-empty and changes
\* nothing; next_key_typed called right after has_next_key_typed returned
\* true does not raise.
C7_EmptyQueue ==
    [][/\ (next_key_typed /\ _keys_typed = <<>>) =>
              ret'.raised /\ _keys_typed' = <<>>
       /\ has_next_key_typed =>
              /\ ret'.value = <<Len(_keys_typed) > 0>>
              /\ UNCHANGED <<_keys_typed, typed, consumed>>
       /\ (/\ next_key_typed
           /\ ret.op = "has_next_key_typed"
           /\ ret.value = <<TRUE>>) => ~ret'.raised]_vars

\* next_key_typed has raised after the keys typed were all consumed.
C7_Witness ==
    /\ ret.op = "next_key_typed"
    /\ ret.raised
    /\ Len(typed) > 0
    /\ consumed = Len(typed)
    /\ _keys_typed = <<>>

-----------------------------------------------------------------------------
(* The last click (SpecMouse).  clicks counts the left-button-down events  *)
(* the polls processed, trues the true results of mouse_pressed.           *)

\* C8: mouse_pressed returns the pressed flag and clears it; its true
\* results never outnumber the left-button-down events processed, and a call
\* with no left-button-down event processed since the last true result
\* returns false.
C8_PressedOnce ==
    /\ [](trues <= clicks)
    /\ [][mouse_pressed =>
            /\ ret'.value = <<_mouse_pressed>>
            /\ ~_mouse_pressed'
            /\ (clicks = clicks_at_true) => (ret'.value = <<FALSE>>)]_vars

\* Two clicks were processed, one call returned true and the call after it,
\* with no click in between, returned false.
C8_Witness ==
    /\ clicks = 2
    /\ trues = 1
    /\ clicks_at_true = 2
    /\ ret.op = "mouse_pressed"
    /\ ret.value = <<FALSE>>

\* C9 as stated: mouse_x and mouse_y raise as long as no left-button-down
\* event has been processed.
C9_RaisesBeforeClick ==
    (clicks = 0 /\ ret.op \in {"mouse_x", "mouse_y"}) => ret.raised

\* C10: once a click at pixel (px, py) has been processed, mouse_x returns
\* x_min + px * (x_max - x_min) / W and mouse_y returns
\* y_max - py * (y_max - y_min) / H, computed in floats, for the bounds and
\* canvas size of the moment of the call, and neither changes the recorded
\* position or the pressed flag.
C10_MouseCoordinates ==
    [][clicks > 0 =>
          LET px == Float(last_click.pos[1])
              py == Float(last_click.pos[2])
              dx == FSub(Float(_x_max), Float(_x_min))
              dy == FSub(Float(_y_max), Float(_y_min))
          IN  /\ (ret'.op = "mouse_x" /\ mouse_x) =>
                    /\ ~ret'.raised
                    /\ ret'.value =
                          <<FAdd(Float(_x_min), FDiv(FMul(px, dx), Float(_canvas_width)))>>
                    /\ UNCHANGED <<_mouse_position, _mouse_pressed, last_click>>
              /\ (ret'.op = "mouse_y" /\ mouse_y) =>
                    /\ ~ret'.raised
                    /\ ret'.value =
                          <<FSub(Float(_y_max), FDiv(FMul(py, dy), Float(_canvas_height)))>>
                    /\ UNCHANGED <<_mouse_position, _mouse_pressed, last_click>>]_vars

\* mouse_x has answered for a click away from the left edge, under x bounds
\* set after the click was processed.
C10_Witness ==
    /\ clicks > 0
    /\ ret.op = "mouse_x"
    /\ ~ret.raised
    /\ last_click.pos[1] > 0
    /\ <<last_click.bounds[1], last_click.bounds[2]>> # <<_x_min, _x_max>>
    /\ _canvas_width = 2

-----------------------------------------------------------------------------
(* The coordinate mapper (SpecScale).                                      *)

FLeq(x, y) == ~FLess(y, x)
FMax(x, y) == IF FLess(x, y) THEN y ELSE x

\* 2^-49, sixteen units in the last place of a float between 1 and 2
Tolerance == [neg |-> FALSE, man |-> <<1>>, exp |-> -49]

\* whether x and v differ by no more than 2^-49 times the magnitude of v or bound
Close(x, v, bound) ==
    FLeq(FAbs(FSub(x, v)), FMul(Tolerance, FMax(FAbs(v), FAbs(Float(bound)))))

\* The bounds are mapped to the edges of the canvas, the y axis inverted.
EdgesExact ==
    /\ _scale_x(Float(_x_min)) = Float(0)
    /\ _scale_x(Float(_x_max)) = Float(_canvas_width)
    /\ _scale_y(Float(_y_max)) = Float(0)
    /\ _scale_y(Float(_y_min)) = Float(_canvas_height)

\* C11 as stated: for all bounds, canvas sizes and coordinates v,
\* _user_x(_scale_x(v)) = v and _user_y(_scale_y(v)) = v exactly, and the
\* bounds are mapped to the edges of the canvas.
C11_RoundTripExact ==
    /\ ret.op \in {"_user_x", "_user_y"} => ret.value[3] = ret.value[1]
    /\ EdgesExact

\* C11 as amended: _user_x(_scale_x(v)) and _user_y(_scale_y(v)) equal v up
\* to the rounding of the six float operations between them, that is within
\* 2^-49 times the largest of |v| and the bound the mapping starts from
\* (x_min, y_max), and the whole-number bounds are mapped exactly to the
\* edges of the canvas.
C11_RoundTripClose ==
    /\ ret.op = "_user_x" => Close(ret.value[3], ret.value[1], _x_min)
    /\ ret.op = "_user_y" => Close(ret.value[3], ret.value[1], _y_max)
    /\ EdgesExact

\* The float 0.1 went to a canvas 3 pixels high and came back as another float.
C11_Witness ==
    /\ ret.op = "_user_y"
    /\ ret.value[1] = Tenth
    /\ ret.value[3] # Tenth
    /\ _canvas_height = 3
    /\ <<_y_min, _y_max>> = <<-1, 2>>

-----------------------------------------------------------------------------
(* The presenter (SpecShow).                                               *)

Idle == Poll(Float(0))          \* a poll that no save dialog kept waiting

\* n turns of a wait loop: sleep a slice, poll.
RECURSIVE Turns(_)
Turns(n) == IF n = 0 THEN <<>> ELSE <<Sleep(quantum), Idle>> \o Turns(n - 1)

\* the number of sleeps in a log
Sleeps(l) == Cardinality({i \in 1..Len(l) : l[i].step = "sleep"})

HasQuit(evs) == \E i \in 1..Len(evs) : evs[i].type = "QUIT"

\* C12: show() with the unbounded duration publishes the frame and never
\* returns: from then on the process is in the unbounded wait or has exited,
\* never in the finite wait and never back in the client; every turn sleeps
\* one slice and polls; the wait ends only by a poll that meets a
\* window-close event, which ends the process; and whatever is queued during
\* the wait is polled in the end.
C12_WaitForever ==
    /\ [][show(Inf) =>
            /\ _background' = _surface'
            /\ log' = <<Publish, Idle>>
            /\ pc' = IF HasQuit(events) THEN "exited" ELSE "forever"]_vars
    /\ [][pc = "forever" =>
            /\ pc' = IF events' # events /\ events' = <<>> /\ HasQuit(events)
                     THEN "exited" ELSE "forever"
            /\ (events' = <<>> /\ events # <<>> /\ ~HasQuit(events)) =>
                   SubSeq(log', 2, 3) = <<Sleep(quantum), Idle>>]_vars
    /\ [][pc = "exited" => pc' = "exited"]_vars
    /\ (pc = "forever" /\ events # <<>>) ~> (events = <<>>)

\* In the unbounded wait, a key typed after two turns has been polled.
C12_Witness ==
    /\ pc = "forever"
    /\ log = <<Idle, Sleep(quantum), Idle>>
    /\ typed = <<"a">>
    /\ events = <<>>

\* C13 as stated: a finite wait of d >= 100 ms turns ceil(d / 100) times,
\* each turn a sleep of one slice and a poll, and returns.
C13_CeilingOfSlices ==
    [][(pc = "waiting" /\ pc' = "idle") =>
          \A d \in LongWaits :
              (second = FDiv(Float(d), Float(1000))) =>
                  log' = <<Publish, Idle, Idle>> \o Turns((d + 99) \div 100)]_vars

\* C14: a finite wait of 0 <= d < 100 ms publishes the frame, polls twice,
\* sleeps once for d / 1000 seconds and returns; what is queued during the
\* sleep is still queued at the return, and the input state is that of the
\* second poll.
C14_ShortSleep ==
    [][/\ \A d \in ShortWaits :
            show(Finite(d)) =>
                /\ _background' = _surface'
                /\ events' = <<>>
                /\ pc' = IF HasQuit(events) THEN "exited" ELSE "sleeping"
                /\ log' = IF HasQuit(events) THEN <<Publish, Idle>>
                                             ELSE <<Publish, Idle, Idle>>
                /\ pc' = "sleeping" => second' = FDiv(Float(d), Float(1000))
       /\ pc = "sleeping" =>
            /\ UNCHANGED <<canvas_vars, input_vars, typed, clicks>>
            /\ \/ /\ pc' = "sleeping"
                  /\ log' = log
                  /\ Len(events') = Len(events) + 1
               \/ /\ pc' = "idle"
                  /\ log' = <<Publish, Idle, Idle, Sleep(second)>>
                  /\ events' = events
                  /\ ~ret'.raised]_vars

\* show(50) has returned while a key typed during its sleep is still queued.
C14_Witness ==
    /\ pc = "idle"
    /\ ret.op = "show"
    /\ log = <<Publish, Idle, Idle, Sleep(FDiv(Float(50), Float(1000)))>>
    /\ events = <<KeyDown("a")>>
    /\ typed = <<>>

-----------------------------------------------------------------------------
(* Save requests during the waits of show (SpecSave).                      *)

\* The polls of a wait, as steps.
WaitPoll == ShowSlice \/ ForeverSlice

\* evs[i] is the one save request of evs, and no window-close comes before it.
OnlySave(evs, i) ==
    /\ IsSaveClick(evs[i])
    /\ \A j \in 1..Len(evs) : IsSaveClick(evs[j]) => j = i
    /\ \A j \in 1..(i - 1) : evs[j].type # "QUIT"

NoSave(evs) == \A j \in 1..Len(evs) : ~IsSaveClick(evs[j])

\* position i of the log starts a poll, a sleep and the next poll
TwoPolls(i) ==
    /\ log[i].step = "poll"
    /\ log[i + 1].step = "sleep"
    /\ log[i + 2].step = "poll"

\* C15 as stated: in a wait of one slice or more, two consecutive polls are
\* never more than one slice apart, whatever events come in.
C15_OneSliceApart ==
    \A i \in 1..(Len(log) - 2) :
        TwoPolls(i) => FLeq(FAdd(log[i].time, log[i + 1].time), quantum)

\* C15 as amended: in a wait of one slice or more the sleep between two
\* consecutive polls is one slice, and a poll takes the time its file picker
\* stays open: no time without a save request, and the seconds the user
\* takes to answer with one.  Two consecutive polls are thus one slice apart
\* only if the earlier one met no save request.
C15_OneSliceAfterThePoll ==
    /\ [](\A i \in 1..(Len(log) - 2) : TwoPolls(i) => log[i + 1].time = quantum)
    /\ [][WaitPoll =>
            /\ Len(log') >= 3
            /\ log'[Len(log') - 1] = Sleep(quantum)
            /\ log'[Len(log')].step = "poll"
            /\ NoSave(events) => log'[Len(log')].time = Float(0)
            /\ \A i \in 1..Len(events) :
                  OnlySave(events, i) => log'[Len(log')].time = events[i].wait]_vars

\* A poll waited 3 seconds for the file picker; the key typed meanwhile was
\* polled one slice after that.
C15_Witness ==
    /\ \E i \in 1..(Len(log) - 2) :
          TwoPolls(i) /\ log[i].time = Float(3) /\ log[i + 1].time = quantum
    /\ typed = <<"a">>
    /\ Spawned("getFileName") = 1

\* the children spawned by a step
NewChildren == SubSeq(children', Len(children) + 1, Len(children'))

Accepted(path) == EndsWith(path, Jpg) \/ EndsWith(path, Png)

\* C19 as stated: a poll that meets a save request spawns the file picker;
\* for an empty path returned it spawns nothing more and saves nothing, for
\* a non-empty path with another ending it spawns one error dialog and saves
\* nothing, and for a path ending in .jpg or .png it saves the off-screen
\* buffer there and spawns one confirmation dialog (the save succeeding).
C19_PathAsReturned ==
    [][\A i \in 1..Len(events) :
          (/\ events' = <<>>
           /\ pc # "exited"
           /\ OnlySave(events, i)
           /\ events[i].error = None) =>
              LET path == events[i].reply
              IN  IF path = <<>>
                  THEN NewChildren = <<GetFileName>> /\ saved' = saved
                  ELSE IF ~Accepted(path)
                  THEN /\ Len(NewChildren) = 2
                       /\ NewChildren[1] = GetFileName
                       /\ NewChildren[2][1] = "reportFileSaveError"
                       /\ saved' = saved
                  ELSE /\ NewChildren = <<GetFileName, ConfirmFileSave>>
                       /\ saved' = Written(saved, path, _surface')]_vars

\* C19 as amended: the path is what the file picker child printed with the
\* white space at its ends stripped; an empty one spawns nothing more and
\* saves nothing, one with another ending spawns one error dialog and saves
\* nothing, and one ending in .jpg or .png is saved to, followed by one
\* confirmation dialog if the save succeeds and by one error dialog and no
\* confirmation if it fails.
C19_PathStripped ==
    [][\A i \in 1..Len(events) :
          (events' = <<>> /\ pc # "exited" /\ OnlySave(events, i)) =>
              LET path == Strip(events[i].reply)
              IN  IF path = <<>>
                  THEN NewChildren = <<GetFileName>> /\ saved' = saved
                  ELSE IF ~Accepted(path)
                  THEN /\ NewChildren = <<GetFileName, ReportFileSaveError(BadFileName)>>
                       /\ saved' = saved
                  ELSE IF events[i].error = None
                  THEN /\ NewChildren = <<GetFileName, ConfirmFileSave>>
                       /\ saved' = Written(saved, path, _surface')
                  ELSE /\ Len(NewChildren) = 2
                       /\ NewChildren[1] = GetFileName
                       /\ NewChildren[2][1] = "reportFileSaveError"
                       /\ saved' = saved]_vars

\* The file picker printed "a.png" and a newline; the drawing was saved as
\* a.png and confirmed.
C19_Witness ==
    /\ children = <<GetFileName, ConfirmFileSave>>
    /\ saved = {ImageFile(<<"a", ".", "p", "n", "g">>, Frame(WHITE, TRUE))}
    /\ events = <<>>

\* C20: a save that fails in the dialog flow does not end the wait or the
\* process and raises nothing in show; it spawns, after the file picker,
\* one error dialog with the message of the failure and no confirmation
\* dialog, writes no file, and leaves the buffers, the pen, the bounds and
\* the input state as they were; a key-down behind it in the queue is
\* polled as ever.
C20_SaveFailureReported ==
    [][\A i \in 1..Len(events) :
          (/\ WaitPoll
           /\ OnlySave(events, i)
           /\ ~HasQuit(events)
           /\ Accepted(Strip(events[i].reply))
           /\ events[i].error # None) =>
              /\ NewChildren = <<GetFileName, ReportFileSaveError(events[i].error[1])>>
              /\ saved' = saved
              /\ pc' \in {"waiting", "forever", "idle"}
              /\ pc = "forever" => pc' = "forever"
              /\ ~ret'.raised
              /\ UNCHANGED <<canvas_vars, scale_vars, pen_vars, _mouse_pressed,
                             _mouse_position>>
              /\ Len(_keys_typed') = Len(_keys_typed) + PendingKeys]_vars

\* A save has failed during a wait; the key typed after the request was
\* polled and the wait has come to its end.
C20_Witness ==
    /\ children = <<GetFileName, ReportFileSaveError("cannot write")>>
    /\ saved = {}
    /\ typed = <<"a">>
    /\ pc = "idle"
    /\ ret.op = "show"
    /\ ~ret.raised

-----------------------------------------------------------------------------
(* The two buffers (SpecFrame).                                            *)

\* the calls of show, of the drawing primitives and of clear, as steps
ShowCall == \E d \in Durations : show(d)
DrawCall == Primitives \/ \E c \in Fills : clear(c)

\* C16: the window buffer of a window that exists changes in no step but
\* the call of show, whose publish step makes it equal to the off-screen
\* buffer; the poll and the sleep that follow leave it.  The off-screen
\* buffer of a window that exists changes in no step but a drawing
\* primitive or clear, so the setters and the input queries change neither
\* buffer.  A step of a window not yet created leaves both buffers absent or
\* creates them: the window buffer as the fresh display, the off-screen one
\* white.
C16_PublishOnly ==
    /\ [][(_window_created /\ _background' # _background) => ShowCall]_vars
    /\ [][\/ /\ _background' = _surface'
              /\ _surface' = (IF _window_created THEN _surface ELSE Frame(WHITE, FALSE))
           \/ ~ShowCall]_vars
    /\ [][(_window_created /\ _surface' # _surface) => DrawCall]_vars
    /\ [][~_window_created =>
              \/ UNCHANGED <<_window_created, _surface, _background>>
              \/ /\ _window_created'
                 /\ _surface' = Frame(WHITE, FALSE)
                 /\ _background' = FreshDisplay
              \/ ShowCall
              \/ DrawCall]_vars

\* Red ink on a cleared canvas was published; after that the canvas was
\* cleared to black and a key was polled, and the window still shows the
\* frame published.
C16_Witness ==
    /\ _background = Frame(WHITE, TRUE)
    /\ _surface = Frame("BLACK", FALSE)
    /\ _pen_color = "RED"
    /\ _keys_typed = <<"a">>
    /\ pc = "idle"

-----------------------------------------------------------------------------
(* The event poll (SpecPoll).                                              *)

\* the steps that poll: the call of show and the turns of its loop
PollStep == show(Finite(100)) \/ ShowSlice

\* the events of evs that come before its first window-close
RECURSIVE Before(_)
Before(evs) ==
    IF evs = <<>> \/ Head(evs).type = "QUIT" THEN <<>>
    ELSE <<Head(evs)>> \o Before(Tail(evs))

\* the keys of the key-downs of evs, the latest first
RECURSIVE KeysOf(_)
KeysOf(evs) ==
    IF evs = <<>> THEN <<>>
    ELSE IF IsKeyDown(Head(evs)) THEN Append(KeysOf(Tail(evs)), Head(evs).unicode)
    ELSE KeysOf(Tail(evs))

LeftDowns(evs) == {i \in 1..Len(evs) : IsLeftDown(evs[i])}

LastLeftDown(evs) == evs[CHOOSE i \in LeftDowns(evs) : \A j \in LeftDowns(evs) : j <= i]

\* what a poll of evs, all of them processed, makes of the input state
Polled(evs) ==
    /\ _keys_typed' = KeysOf(evs) \o _keys_typed
    /\ _mouse_pressed' = (_mouse_pressed \/ LeftDowns(evs) # {})
    /\ _mouse_position' = IF LeftDowns(evs) = {} THEN _mouse_position
                                                 ELSE LastLeftDown(evs).pos
    /\ clicks' = clicks + Cardinality(LeftDowns(evs))

\* C17: a poll that meets a window-close ends the process: the events
\* before the window-close have taken effect, those behind it in the same
\* poll have none, and no step follows, of the call under way or of any
\* later call.
C17_QuitEndsAll ==
    /\ [][(HasQuit(events) /\ PollStep) =>
              /\ pc' = "exited"
              /\ Polled(Before(events))
              /\ log'[Len(log')].step = "poll"]_vars
    /\ [][pc # "exited"]_vars

\* A turn of the wait has polled a key and then a window-close: the key is
\* in the queue and the process has ended.
C17_Witness ==
    /\ pc = "exited"
    /\ _keys_typed = <<"a">>
    /\ log = <<Publish, Idle, Idle, Sleep(quantum), Idle>>

\* C18: the key queue grows, the pressed flag is set and the click position
\* changes in polls only.  A poll adds one key for each key-down, the latest
\* at the front; with a left-button-down it sets the flag and records the
\* position of the last one; the other events count for nothing.  Outside
\* the polls next_key_typed takes a key, mouse_pressed clears the flag, and
\* every other call (setters, primitives, clear, has_next_key_typed,
\* mouse_x, mouse_y) leaves the three unchanged.
C18_PollOnly ==
    /\ [][\/ Len(_keys_typed') > Len(_keys_typed)
          \/ _mouse_pressed' /\ ~_mouse_pressed
          \/ _mouse_position' # _mouse_position
              => PollStep]_vars
    /\ [][Polled(Before(events)) \/ ~PollStep]_vars
    /\ [][input_vars' # input_vars
              => (next_key_typed \/ mouse_pressed \/ PollStep)]_vars

\* Two keys and a click were polled together with a right-button-down and a
\* left-button-up; the calls after the poll left them as polled.
C18_Witness ==
    /\ _keys_typed = <<"a", "a">>
    /\ _mouse_pressed
    /\ _mouse_position = <<1, 0>>
    /\ ret.op = "clear"
    /\ pc = "idle"

-----------------------------------------------------------------------------
(* The dialog children (SpecSave).  children lists the children spawned;   *)
(* the parent reaps none of them, and the confirmation and error dialogs   *)
(* stay open for as long as the user leaves them.                          *)

\* C21: a poll that spawns a confirmation or error dialog is kept waiting by
\* the file picker alone, for the time the user took to answer it, and not
\* by the dialog it spawns; the wait of show goes on after it, or returns at
\* its end, with the dialog child still in the list of children.
C21_OnlyThePickerBlocks ==
    [][\A i \in 1..Len(events) :
          (WaitPoll /\ OnlySave(events, i) /\ Len(NewChildren) = 2) =>
              /\ NewChildren[2][1] \in {"confirmFileSave", "reportFileSaveError"}
              /\ log'[Len(log')] = Poll(events[i].wait)
              /\ log'[Len(log') - 1] = Sleep(quantum)
              /\ pc' \in {"waiting", "forever", "idle"}
              /\ pc = "forever" => pc' = "forever"]_vars

\* A poll of the unbounded wait spawned the confirmation dialog without
\* waiting; the wait has gone through another turn since, and a key typed
\* meanwhile was polled.
C21_Witness ==
    /\ pc = "forever"
    /\ children = <<GetFileName, ConfirmFileSave>>
    /\ log = <<Idle, Sleep(quantum), Idle>>
    /\ typed = <<"a">>
    /\ events = <<>>

-----------------------------------------------------------------------------
(* The polls between the publish step and the first sleep (SpecShow).      *)

\* the number of polls at the head of l
RECURSIVE LeadingPolls(_)
LeadingPolls(l) ==
    IF l = <<>> \/ Head(l).step # "poll" THEN 0
    ELSE 1 + LeadingPolls(Tail(l))

\* the log starts with the publish step of the call of show it belongs to
Published == log # <<>> /\ log[1] = Publish

\* C23 as stated: in every call of show there is a single poll of the event
\* queue between the publish step and the first sleep or the return.
C23_OnePoll == Published => LeadingPolls(Tail(log)) = 1

\* C23 as amended: a call of show with a finite duration polls the event
\* queue twice between the publish step and the first sleep, the poll of
\* _show and the poll of show itself, which finds the queue empty; the
\* unbounded call polls once.  A window-close met by the first poll ends
\* the process before the second.
C23_TwoPolls ==
    Published =>
        /\ LeadingPolls(Tail(log)) \in {1, 2}
        /\ LeadingPolls(Tail(log)) = 1 => pc \in {"forever", "exited"}
        /\ LeadingPolls(Tail(log)) = 2 => log[3] = Idle
        /\ pc = "forever" => LeadingPolls(Tail(log)) = 1
        /\ pc \in {"idle", "sleeping", "waiting"} => LeadingPolls(Tail(log)) = 2

\* A call of show with a short duration has published and polled a key, and
\* polled again, and is about to sleep.
C23_Witness ==
    /\ pc = "sleeping"
    /\ log = <<Publish, Idle, Idle>>
    /\ _keys_typed = <<"a">>

-----------------------------------------------------------------------------
(* What the right-click save writes (SpecSave).                            *)

\* a step that polls the event queue
PollingStep == show(Finite(250)) \/ show(Inf) \/ WaitPoll

-----------------------------------------------------------------------------
(* Clicks are not queued (SpecClicks).                                     *)

\* whether a left-button-down was processed since the last true result of
\* mouse_pressed (clicks_at_true is -1 before the first)
ClickPending == (clicks > 0) /\ (clicks > clicks_at_true)

\* C30: the left-button-down events of a poll leave the pressed flag set
\* and the position of the last of them recorded, however many they are and
\* whether the flag was set before; mouse_pressed returns true exactly if a
\* left-button-down was processed since its last true result, so once for
\* several clicks, and it leaves the recorded position; the position changes
\* in no step but one that processes a left-button-down, and mouse_x and
\* mouse_y answer for the last click processed, before and after
\* mouse_pressed consumed the flag.
C30_LatestClickOnly ==
    /\ [](clicks > 0 => _mouse_position = last_click.pos)
    /\ [](_mouse_pressed <=> ClickPending)
    /\ [][(show(Finite(0)) /\ LeftDowns(events) # {}) =>
              /\ _mouse_pressed'
              /\ _mouse_position' = LastLeftDown(events).pos
              /\ clicks' = clicks + Cardinality(LeftDowns(events))]_vars
    /\ [][mouse_pressed =>
              /\ ret'.value = <<ClickPending>>
              /\ trues' = IF ClickPending THEN trues + 1 ELSE trues
              /\ ~_mouse_pressed'
              /\ _mouse_position' = _mouse_position]_vars
    /\ [][_mouse_position' # _mouse_position => clicks' > clicks]_vars
    /\ [][clicks > 0 =>
              /\ mouse_x => ret' = Returned("mouse_x", <<_user_x(Float(last_click.pos[1]))>>)
              /\ mouse_y => ret' = Returned("mouse_y", <<_user_y(Float(last_click.pos[2]))>>)]_vars

\* Two clicks were processed before mouse_pressed was called; it returned
\* true once, and mouse_y has answered since for the second click.
C30_Witness ==
    /\ clicks = 2
    /\ trues = 1
    /\ clicks_at_true = 2
    /\ ~_mouse_pressed
    /\ _mouse_position = last_click.pos
    /\ ret = Returned("mouse_y", <<_user_y(Float(_mouse_position[2]))>>)

-----------------------------------------------------------------------------
(* The primitives as calls of the backend (SpecDraw, SpecLine).            *)

\* the arguments, the stamps and the calls of the primitive called last
Args   == ret.value[1].args
Stamps == ret.value[1].stamps
Calls  == ret.value[1].calls

\* whether the last call was of the primitive op, with arguments
Drew(op) == ret.op = op /\ ret.value # None

\* whether (x, y) lies within the bounds, the edges included
InBounds(x, y) ==
    /\ ~FLess(x, Float(_x_min)) /\ ~FLess(Float(_x_max), x)
    /\ ~FLess(y, Float(_y_min)) /\ ~FLess(Float(_y_max), y)

OnCanvas(px, py) == (px \in 0..(_canvas_width - 1)) /\ (py \in 0..(_canvas_height - 1))

\* The pixels that the calls of pygame.gfxdraw.pixel among calls write to,
\* with the colours they are given: the backend drops a pixel that is not
\* on the surface.
PixelsWritten(calls) ==
    {[x |-> calls[i].x, y |-> calls[i].y, color |-> calls[i].color.rgb] :
        i \in {j \in 1..Len(calls) : /\ calls[j].call = "pygame.gfxdraw.pixel"
                                      /\ OnCanvas(calls[j].x, calls[j].y)}}

\* C22 as stated: a point drawn with pen radius 0 at (x, y) within the
\* bounds, on an off-screen buffer that is all white, makes one call, which
\* writes the pen colour to the pixel (round(scale_x(x)), round(scale_y(y)))
\* of the buffer and to no other.
C22_PointPixel ==
    [][(/\ ret'.op = "point" /\ ret'.value # None
        /\ _surface = Frame(WHITE, FALSE)
        /\ _pen_radius = 0
        /\ InBounds(ret'.value[1].args[1], ret'.value[1].args[2])) =>
            /\ Len(ret'.value[1].calls) = 1
            /\ PixelsWritten(ret'.value[1].calls) =
                   {[x |-> round(_scale_x(ret'.value[1].args[1])),
                     y |-> round(_scale_y(ret'.value[1].args[2])),
                     color |-> _pen_color]}]_vars

\* C25 as stated: a line drawn with a line width, twice the stored pen
\* radius, below 3 makes one call of the backend's line between the scaled
\* end points, with a stroke width of at least 1 pixel; with a line width of
\* 3 or more it makes no call of the backend's line but stamps filled
\* circles, one or more.
C25_StrokeAtLeastOne ==
    Drew("line") =>
        IF FLess(FMul(PenRadius, Float(2)), Float(3))
        THEN /\ Stamps = <<>>
             /\ Len(Calls) = 1
             /\ Calls[1].call = "pygame.draw.line"
             /\ Calls[1].start = <<_scale_x(Args[1]), _scale_y(Args[2])>>
             /\ Calls[1].end = <<_scale_x(Args[3]), _scale_y(Args[4])>>
             /\ Calls[1].width >= 1
        ELSE /\ Stamps # <<>>
             /\ Calls = StampCalls(Stamps)
             /\ \A i \in 1..Len(Calls) : Calls[i].call # "pygame.draw.line"

\* the point where the i-th piece of the thick line drawn last ends: the
\* centre of the next stamp, or the end of the line
PieceEnd(i) ==
    IF i < Len(Stamps) THEN <<Stamps[i + 1].x, Stamps[i + 1].y>> ELSE <<Args[3], Args[4]>>

\* the distances in pixels along x and along y between the user points p and q
GapX(p, q) == FAbs(FSub(_scale_x(p[1]), _scale_x(q[1])))
GapY(p, q) == FAbs(FSub(_scale_y(p[2]), _scale_y(q[2])))

\* the extent in pixels of the line drawn last: the larger of its extents
\* along x and along y
Extent == FMax(GapX(<<Args[1], Args[2]>>, <<Args[3], Args[4]>>),
               GapY(<<Args[1], Args[2]>>, <<Args[3], Args[4]>>))

RECURSIVE IsPowerOfTwo(_)
IsPowerOfTwo(n) == (n = 1) \/ (n > 1 /\ n % 2 = 0 /\ IsPowerOfTwo(n \div 2))

ThickLine == Drew("line") /\ Stamps # <<>>

Circles    == {"circle", "filled_circle"}
Rectangles == {"rectangle", "filled_rectangle"}

\* the width and height in pixels of the shape drawn last
ShapeWidth  == _factor_x(IF ret.op \in Circles THEN FMul(Float(2), Args[3]) ELSE Args[3])
ShapeHeight == _factor_y(IF ret.op \in Circles THEN FMul(Float(2), Args[3]) ELSE Args[4])

\* the one pixel at the scaled and rounded (x, y) of the shape drawn last
OnePixel ==
    <<[call |-> "pygame.gfxdraw.pixel",
       x |-> round(_scale_x(Args[1])), y |-> round(_scale_y(Args[2])),
       color |-> _pygame_color(_pen_color)]>>

\* The full shape: an ellipse in the box of the shape's width and height
\* around the scaled centre, or a rectangle of that width and height whose
\* top is its height above the scaled (x, y); outlines are stroked with the
\* rounded pen radius.
WholeShape(ws, hs) ==
    <<[call  |-> IF ret.op \in Circles THEN "pygame.draw.ellipse" ELSE "pygame.draw.rect",
       color |-> _pygame_color(_pen_color),
       rect  |-> IF ret.op \in Circles
                 THEN [left   |-> FSub(_scale_x(Args[1]), FDiv(ws, Float(2))),
                       top    |-> FSub(_scale_y(Args[2]), FDiv(hs, Float(2))),
                       width  |-> ws,
                       height |-> hs]
                 ELSE [left   |-> _scale_x(Args[1]),
                       top    |-> FSub(_scale_y(Args[2]), hs),
                       width  |-> ws,
                       height |-> hs],
       width |-> IF ret.op \in {"circle", "rectangle"} THEN round(PenRadius) ELSE 0]>>

DrewShape == ret.op \in Circles \cup Rectangles /\ ret.value # None

\* C27 as stated: a circle or rectangle, filled or not, whose width and
\* height in pixels both round to 1 or less is drawn as one pixel, any
\* other as the full shape.
C27_RoundedExtent ==
    DrewShape =>
        Calls = IF round(ShapeWidth) <= 1 /\ round(ShapeHeight) <= 1
                THEN OnePixel
                ELSE WholeShape(ShapeWidth, ShapeHeight)

\* C27 as amended: a circle or rectangle, filled or not, whose width and
\* height in pixels are both 1.0 or less, unrounded, is drawn as one pixel,
\* any other as the full shape.
C27_ExactExtent ==
    DrewShape =>
        Calls = IF ~FLess(Float(1), ShapeWidth) /\ ~FLess(Float(1), ShapeHeight)
                THEN OnePixel
                ELSE WholeShape(ShapeWidth, ShapeHeight)

\* A filled circle one and a quarter pixels wide and high was drawn as an
\* ellipse.
C27_Witness ==
    /\ Drew("filled_circle")
    /\ ShapeWidth = FDiv(Float(5), Float(4))
    /\ ShapeHeight = FDiv(Float(5), Float(4))
    /\ Calls[1].call = "pygame.draw.ellipse"

Between(p, q, r) ==
    \/ ~FLess(q, p) /\ ~FLess(r, q)
    \/ ~FLess(p, q) /\ ~FLess(q, r)

\* C29: the centres of the circles of a thick line start at (x0, y0); each
\* lies between the one before and (x1, y1) along both axes, so they never
\* turn back; two consecutive centres are less than one pixel apart in x
\* and in y, and so are the last centre and (x1, y1).
C29_NoGap ==
    ThickLine =>
        /\ <<Stamps[1].x, Stamps[1].y>> = <<Args[1], Args[2]>>
        /\ \A i \in 1..Len(Stamps) :
               /\ Stamps[i].r = FDiv(PenRadius, Float(_DEFAULT_CANVAS_SIZE))
               /\ Between(_scale_x(Stamps[i].x), _scale_x(PieceEnd(i)[1]), _scale_x(Args[3]))
               /\ Between(_scale_y(Stamps[i].y), _scale_y(PieceEnd(i)[2]), _scale_y(Args[4]))
               /\ <<Stamps[i].x, Stamps[i].y>> # PieceEnd(i) \/ Len(Stamps) = 1
               /\ FLess(GapX(<<Stamps[i].x, Stamps[i].y>>, PieceEnd(i)), Float(1))
               /\ FLess(GapY(<<Stamps[i].x, Stamps[i].y>>, PieceEnd(i)), Float(1))

\* A line that runs four pixels to the left and two pixels up on the
\* default canvas was stamped in eight circles.
C29_Witness ==
    /\ ThickLine
    /\ Len(Stamps) = 8
    /\ FLess(Args[3], Args[1])
    /\ FLess(Args[2], Args[4])
    /\ _x_max = 1

=============================================================================
